---- MODULE Spec2Model ----
(***************************************************************************)
(* Verification model of the Static Thread Scheduler (STS).                *)
(*                                                                         *)
(* The module holds several specifications over disjoint groups of         *)
(* variables:                                                              *)
(*   SpecMM / FairSpecMM    MMBarrier::enter           (sts/barrier.h)     *)
(*   SpecRMO / FairSpecRMO  RMOBarrier::wait / open    (sts/barrier.h)     *)
(*   SpecRange              Range::subset + LoopTaskFunctor::run           *)
(*   SpecRed                TaskReduction              (sts/reduce.h)      *)
(*   SpecLR / FairSpecLR    LambdaRunner       (sts/lambdaRunner.h)        *)
(*   Spec                   the scheduler: STS, Task, SubTask, Thread      *)
(* A specification leaves the variables of the other groups untouched.     *)
(***************************************************************************)
EXTENDS Integers, Sequences, FiniteSets, TLC

VARIABLES
    \* ---- MMBarrier (sts/barrier.h) ----
    numWaitingThreads,   \* std::atomic<int> MMBarrier::numWaitingThreads
    numReleasedThreads,  \* std::atomic<int> MMBarrier::numReleasedThreads
    mmPc,                \* position of each thread inside enter()
    mmEntered,           \* history: number of enter() calls each thread made
    mmReturned,          \* history: number of enter() calls that returned
    mmCounted,           \* history: round each thread's last arrival counted for
    mmResets,            \* history: number of resets of numWaitingThreads
    \* ---- RMOBarrier (sts/barrier.h) ----
    locksOpened_,        \* std::atomic<int> RMOBarrier::locksOpened_
    lockNum_,            \* std::vector<int> RMOBarrier::lockNum_
    rmoPc,               \* position of each waiter inside wait(tid)
    rmoReturned,         \* history: number of wait(tid) calls that returned
    \* ---- LoopTaskFunctor over a partition of [0,1] (sts/task.h) ----
    range_,              \* Range<int64_t> LoopTaskFunctor::range_
    rgParts,             \* the Range<Ratio> of each subtask of the loop task
    rgCur,               \* the part whose loop is running, 0 when none is
    rgRunInfo,           \* SubTaskRunInfo of the running loop
    rgDone,              \* the parts whose loop has returned
    rgExec,              \* history: number of body calls made for each part
    rgCount,             \* history: number of body calls made for each index
    \* ---- TaskReduction (sts/reduce.h) ----
    trRed,               \* the TaskReduction object: values, result
    trInit,              \* history: the init value it was created with
    trCollected,         \* history: sum of the values passed to collect
    trNumCollects,       \* history: number of collect calls
    trReduced,           \* history: number of reduce calls
    \* ---- the scheduler (sts/sts.h, sts/task.h, sts/thread.h) ----
    numThreads,          \* threads_.size()
    prog,                \* the program the main thread runs
    stepCounter_,        \* static std::atomic<int> STS::stepCounter_
    stepCounterBarrier_, \* static OMBarrier STS::stepCounterBarrier_
    instance_,           \* static STS *STS::instance_
    sts,                 \* the STS objects: the default one and the user's
    ctl,                 \* the calls each thread is inside, innermost last
    red,                 \* the TaskReduction object of the program
    redHist,             \* history: init, number of collect(1) calls, reduced
    aborted,             \* an assert failed or a null functor was called
    \* ---- LambdaRunner (sts/lambdaRunner.h) ----
    isRunning_,          \* std::atomic<bool> LambdaRunner::isRunning_
    finished_,           \* std::atomic<bool> LambdaRunner::finished_
    doHalt_,             \* std::atomic<bool> LambdaRunner::doHalt_
    lambda_,             \* LambdaRunner::lambda_: the pause calls it makes
    mut_,                \* LambdaRunner::mut_: "free" or the thread holding it
    cv_,                 \* LambdaRunner::cv_: threads waiting, threads notified
    lrRunner,            \* the runner's thread: pc, return of pause, pauses left
    lrCaller,            \* the outside caller: pc, return of cont, calls of run
    lrLam,               \* history: the state of the callable passed to run
    lrAborted,           \* an assert of LambdaRunner failed
    \* ---- the roll call of ex8.cpp (RMOBarrier rmob, OMBarrier omb) ----
    omb,                 \* std::atomic<int> numThreadsRemaining of omb
    rcPc,                \* position of each thread inside roll_call
    tidCalled,           \* the loop variable of roll_call of each thread
    rcOut                \* what the threads have printed

mmVars  == <<numWaitingThreads, numReleasedThreads, mmPc, mmEntered,
             mmReturned, mmCounted, mmResets>>
rmoVars == <<locksOpened_, lockNum_, rmoPc, rmoReturned>>

rgVars  == <<range_, rgParts, rgCur, rgRunInfo, rgDone, rgExec, rgCount>>
trVars  == <<trRed, trInit, trCollected, trNumCollects, trReduced>>

stsVars == <<numThreads, prog, stepCounter_, stepCounterBarrier_, instance_, sts, ctl,
             red, redHist, aborted>>

lrVars  == <<isRunning_, finished_, doHalt_, lambda_, mut_, cv_, lrRunner, lrCaller,
             lrLam, lrAborted>>

rcVars  == <<omb, rcPc, tidCalled, rcOut>>

vars == <<mmVars, rmoVars, rgVars, trVars, stsVars, lrVars, rcVars>>

\* the variables each specification leaves untouched
notMM  == <<rmoVars, rgVars, trVars, stsVars, lrVars, rcVars>>
notRMO == <<mmVars, rgVars, trVars, stsVars, lrVars, rcVars>>
notRG  == <<mmVars, rmoVars, trVars, stsVars, lrVars, rcVars>>
notTR  == <<mmVars, rmoVars, rgVars, stsVars, lrVars, rcVars>>
notSTS == <<mmVars, rmoVars, rgVars, trVars, lrVars, rcVars>>
notLR  == <<mmVars, rmoVars, rgVars, trVars, stsVars, rcVars>>
notRC  == <<mmVars, rgVars, trVars, stsVars, lrVars>>

-----------------------------------------------------------------------------
(***************************************************************************)
(* MMBarrier: reusable many-to-many barrier.                               *)
(***************************************************************************)

\* MMBarrier(nt): number of threads of the barrier
nthreads == 3
\* number of successive rounds each thread enters the barrier
MaxRounds == 2

MMThreads == 1..nthreads

MMIdle ==
    /\ numWaitingThreads = 0
    /\ numReleasedThreads = 0
    /\ mmPc = [t \in MMThreads |-> "out"]
    /\ mmEntered = [t \in MMThreads |-> 0]
    /\ mmReturned = [t \in MMThreads |-> 0]
    /\ mmCounted = [t \in MMThreads |-> 0]
    /\ mmResets = 0

\* Mutant: the first wait of enter() is dropped.
MMReleasedClear_NoWait(released) == TRUE

\* enter(): wait_until(numReleasedThreads, 0)
MMReleasedClear(released) == released = 0

\* enter(): numReleasedThreads.fetch_add(1) == nthreads-1
MMIsLast(old) == old = nthreads - 1

\* a thread calls enter()
MMCall(t) ==
    /\ mmPc[t] = "out"
    /\ mmEntered[t] < MaxRounds
    /\ mmPc' = [mmPc EXCEPT ![t] = "waitReleased"]
    /\ mmEntered' = [mmEntered EXCEPT ![t] = @ + 1]
    /\ UNCHANGED <<numWaitingThreads, numReleasedThreads, mmReturned,
                   mmCounted, mmResets, notMM>>

\* wait_until(numReleasedThreads, 0) observes 0
MMWaitReleased(t) ==
    /\ mmPc[t] = "waitReleased"
    /\ MMReleasedClear(numReleasedThreads)
    /\ mmPc' = [mmPc EXCEPT ![t] = "addWaiting"]
    /\ UNCHANGED <<numWaitingThreads, numReleasedThreads, mmEntered,
                   mmReturned, mmCounted, mmResets, notMM>>

\* numWaitingThreads.fetch_add(1)
MMAddWaiting(t) ==
    /\ mmPc[t] = "addWaiting"
    /\ numWaitingThreads' = numWaitingThreads + 1
    /\ mmCounted' = [mmCounted EXCEPT ![t] = mmResets + 1]
    /\ mmPc' = [mmPc EXCEPT ![t] = "waitWaiting"]
    /\ UNCHANGED <<numReleasedThreads, mmEntered, mmReturned, mmResets,
                   notMM>>

\* wait_until(numWaitingThreads, nthreads) observes nthreads
MMWaitWaiting(t) ==
    /\ mmPc[t] = "waitWaiting"
    /\ numWaitingThreads = nthreads
    /\ mmPc' = [mmPc EXCEPT ![t] = "addReleased"]
    /\ UNCHANGED <<numWaitingThreads, numReleasedThreads, mmEntered,
                   mmReturned, mmCounted, mmResets, notMM>>

\* if (numReleasedThreads.fetch_add(1) == nthreads-1) ... else return
MMAddReleased(t) ==
    /\ mmPc[t] = "addReleased"
    /\ numReleasedThreads' = numReleasedThreads + 1
    /\ IF MMIsLast(numReleasedThreads)
       THEN /\ mmPc' = [mmPc EXCEPT ![t] = "resetWaiting"]
            /\ UNCHANGED mmReturned
       ELSE /\ mmPc' = [mmPc EXCEPT ![t] = "out"]
            /\ mmReturned' = [mmReturned EXCEPT ![t] = @ + 1]
    /\ UNCHANGED <<numWaitingThreads, mmEntered, mmCounted, mmResets, notMM>>

\* numWaitingThreads.store(0)
MMResetWaiting(t) ==
    /\ mmPc[t] = "resetWaiting"
    /\ numWaitingThreads' = 0
    /\ mmResets' = mmResets + 1
    /\ mmPc' = [mmPc EXCEPT ![t] = "resetReleased"]
    /\ UNCHANGED <<numReleasedThreads, mmEntered, mmReturned, mmCounted,
                   notMM>>

\* numReleasedThreads.store(0); return
MMResetReleased(t) ==
    /\ mmPc[t] = "resetReleased"
    /\ numReleasedThreads' = 0
    /\ mmPc' = [mmPc EXCEPT ![t] = "out"]
    /\ mmReturned' = [mmReturned EXCEPT ![t] = @ + 1]
    /\ UNCHANGED <<numWaitingThreads, mmEntered, mmCounted, mmResets, notMM>>

\* one step of thread t inside (or entering) MMBarrier::enter
MMEnter(t) ==
    \/ MMCall(t)
    \/ MMWaitReleased(t)
    \/ MMAddWaiting(t)
    \/ MMWaitWaiting(t)
    \/ MMAddReleased(t)
    \/ MMResetWaiting(t)
    \/ MMResetReleased(t)

-----------------------------------------------------------------------------
(***************************************************************************)
(* RMOBarrier: reusable many-to-one barrier.                               *)
(***************************************************************************)

\* RMOBarrier(maxThreadId): waiter ids are 0..maxThreadId
maxThreadId == 2
\* number of open() calls the opener makes
MaxOpens == 3
\* number of wait(tid) calls each waiter makes
MaxWaits == 3

RMOWaiters == 0..maxThreadId

RMOIdle ==
    /\ locksOpened_ = 0
    /\ lockNum_ = [t \in RMOWaiters |-> 0]
    /\ rmoPc = [t \in RMOWaiters |-> "out"]
    /\ rmoReturned = [t \in RMOWaiters |-> 0]

\* Mutant: the waiter compares before counting its own call.
RMOPassed_OffByOne(opened, num) == opened >= num - 1

\* wait_until_ge(locksOpened_, lockNum_[tid])
RMOPassed(opened, num) == opened >= num

\* lockNum_[tid]++
RMOBump(ln, tid) == [ln EXCEPT ![tid] = @ + 1]

\* RMOBarrier::open
RMOOpen ==
    /\ locksOpened_ < MaxOpens
    /\ locksOpened_' = locksOpened_ + 1
    /\ UNCHANGED <<lockNum_, rmoPc, rmoReturned, notRMO>>

\* RMOBarrier::wait(tid), first statement
RMOWaitCall(tid) ==
    /\ rmoPc[tid] = "out"
    /\ lockNum_[tid] < MaxWaits
    /\ lockNum_' = RMOBump(lockNum_, tid)
    /\ rmoPc' = [rmoPc EXCEPT ![tid] = "spin"]
    /\ UNCHANGED <<locksOpened_, rmoReturned, notRMO>>

\* RMOBarrier::wait(tid), the spin loop ends
RMOWaitReturn(tid) ==
    /\ rmoPc[tid] = "spin"
    /\ RMOPassed(locksOpened_, lockNum_[tid])
    /\ rmoPc' = [rmoPc EXCEPT ![tid] = "out"]
    /\ rmoReturned' = [rmoReturned EXCEPT ![tid] = @ + 1]
    /\ UNCHANGED <<locksOpened_, lockNum_, notRMO>>

-----------------------------------------------------------------------------
(***************************************************************************)
(* Range arithmetic and LoopTaskFunctor::run.                              *)
(***************************************************************************)

\* largest denominator of the ratios cutting [0,1]
MaxDenom == 3
\* largest number of subtasks of the loop task
MaxParts == 3
\* largest number of iterations end - start given to parallel_for
MaxSpan == 4
\* the start indices given to parallel_for
RgStarts == {0 - 1, 2}

\* Ratio(n, d): an exact fraction
Ratio(n, d) == [n |-> n, d |-> d]
RatioSet == {Ratio(n, d) : n \in 0..MaxDenom, d \in 1..MaxDenom} \cap
            {q \in [n : 0..MaxDenom, d : 1..MaxDenom] : q.n <= q.d}
RatioLE(p, q) == p.n * q.d <= q.n * p.d
RatioEQ(p, q) == p.n * q.d = q.n * p.d

\* Range<T>(s, e): the half-open interval [s, e)
Range(s, e) == [start |-> s, end |-> e]

\* Ratio times integer, converted to an integer: rounds toward the start
RatioTimes(q, k) == (q.n * k) \div q.d

\* Range<int64_t>::subset(Range<Ratio>): the rational sub-range mapped into
\* the integer span of r, both endpoints rounded toward r.start
Subset(r, sub) ==
    Range(r.start + RatioTimes(sub.start, r.end - r.start),
          r.start + RatioTimes(sub.end, r.end - r.start))

\* LoopTaskFunctor::run, the block before the loop: SubTaskRunInfo set up
LoopStart(r) ==
    [isRunning |-> r.start < r.end, startIter |-> r.start, endIter |-> r.end,
     currentIter |-> r.start]

\* Mutant: the loop end is taken as inclusive.
LoopAdvance_Inclusive(ri) ==
    [ri EXCEPT !.currentIter = @ + 1,
               !.isRunning = (ri.currentIter + 1 <= ri.endIter)]

\* LoopTaskFunctor::run, the block after body_(ci): currentIter++ and test
LoopAdvance(ri) ==
    [ri EXCEPT !.currentIter = @ + 1,
               !.isRunning = (ri.currentIter + 1 < ri.endIter)]

\* SubTaskRunInfo as constructed: not running, all iteration values 0
NoRunInfo == [isRunning |-> FALSE, startIter |-> 0, endIter |-> 0, currentIter |-> 0]

\* the sequences of K+1 cut points 0 = c0 <= c1 <= ... <= cK = 1
Cuts(K) ==
    {c \in [0..K -> RatioSet] :
        /\ c[0] = Ratio(0, 1)
        /\ c[K] = Ratio(1, 1)
        /\ \A i \in 0..(K-1) : RatioLE(c[i], c[i+1])}

\* the assignments of a loop task whose subtask ranges tile [0,1]
Tilings ==
    UNION {{[k \in 1..K |-> Range(c[k-1], c[k])] : c \in Cuts(K)} : K \in 1..MaxParts}

\* the indices a body call can be recorded for
RgIndex == (-2)..(2 + MaxSpan + 1)

RGIdle ==
    /\ range_ = Range(0, 0)
    /\ rgParts = <<>>
    /\ rgCur = 0
    /\ rgRunInfo = NoRunInfo
    /\ rgDone = {}
    /\ rgExec = <<>>
    /\ rgCount = <<>>

\* parallel_for(label, start, end, body) on a loop task assigned as rgParts
RGInit ==
    /\ \E s \in RgStarts : \E n \in 0..MaxSpan : range_ = Range(s, s + n)
    /\ rgParts \in Tilings
    /\ rgCur = 0
    /\ rgRunInfo = NoRunInfo
    /\ rgDone = {}
    /\ rgExec = [k \in 1..Len(rgParts) |-> 0]
    /\ rgCount = [i \in RgIndex |-> 0]

\* LoopTaskFunctor::run(Range<Ratio>) of subtask k up to the first test
RgLoopStart(k) ==
    /\ rgCur = 0
    /\ k \notin rgDone
    /\ LET ri == LoopStart(Subset(range_, rgParts[k]))
       IN /\ rgRunInfo' = ri
          /\ IF ri.isRunning
             THEN rgCur' = k /\ UNCHANGED rgDone
             ELSE rgCur' = 0 /\ rgDone' = rgDone \cup {k}
    /\ UNCHANGED <<range_, rgParts, rgExec, rgCount, notRG>>

\* one pass of the while loop: body_(ci), then currentIter++ and the test
RgLoopIter ==
    /\ rgCur # 0
    /\ LET ri == LoopAdvance(rgRunInfo)
       IN /\ rgCount' = [rgCount EXCEPT ![rgRunInfo.currentIter] = @ + 1]
          /\ rgExec' = [rgExec EXCEPT ![rgCur] = @ + 1]
          /\ rgRunInfo' = ri
          /\ IF ri.isRunning
             THEN UNCHANGED <<rgCur, rgDone>>
             ELSE rgCur' = 0 /\ rgDone' = rgDone \cup {rgCur}
    /\ UNCHANGED <<range_, rgParts, notRG>>

-----------------------------------------------------------------------------
(***************************************************************************)
(* TaskReduction.                                                          *)
(***************************************************************************)

\* largest initial value of a reduction
MaxInit == 1
\* largest number of threads of the task of a reduction
MaxRedThreads == 2
\* largest number of collect calls
MaxCollects == 3
\* the values passed to collect
RedValues == {1, 2}

RECURSIVE SumSeq(_)
SumSeq(s) == IF s = <<>> THEN 0 ELSE Head(s) + SumSeq(Tail(s))

\* TaskReduction(taskName, init, numThreads)
TaskReductionNew(init, n) ==
    [values |-> [i \in 1..n |-> init], result |-> init]

\* TaskReduction::collect(a, pos): values[pos] += a
TaskReductionCollect(r, a, pos) ==
    [r EXCEPT !.values[pos + 1] = @ + a]

\* TaskReduction::reduce(): result += i for every i in values
TaskReductionReduce(r) ==
    [r EXCEPT !.result = @ + SumSeq(r.values)]

\* TaskReduction::getResult()
TaskReductionGetResult(r) == r.result

TRIdle ==
    /\ trRed = TaskReductionNew(0, 1)
    /\ trInit = 0
    /\ trCollected = 0
    /\ trNumCollects = 0
    /\ trReduced = 0

\* createTaskReduction(taskName, init) for a task with numThreads threads
TRInit ==
    /\ trInit \in 0..MaxInit
    /\ \E n \in 1..MaxRedThreads : trRed = TaskReductionNew(trInit, n)
    /\ trCollected = 0
    /\ trNumCollects = 0
    /\ trReduced = 0

\* a thread of the task calls collect(a) inside the loop
TRCollect(a, pos) ==
    /\ trReduced = 0
    /\ trNumCollects < MaxCollects
    /\ trRed' = TaskReductionCollect(trRed, a, pos)
    /\ trCollected' = trCollected + a
    /\ trNumCollects' = trNumCollects + 1
    /\ UNCHANGED <<trInit, trReduced, notTR>>

\* parallel_for calls red->reduce() once, at the end of the loop
TRReduce ==
    /\ trReduced = 0
    /\ trRed' = TaskReductionReduce(trRed)
    /\ trReduced' = 1
    /\ UNCHANGED <<trInit, trCollected, trNumCollects, notTR>>

-----------------------------------------------------------------------------
(***************************************************************************)
(* The scheduler: class STS with Task, SubTask, Thread and LambdaRunner.   *)
(* One scheduler object per instance name; every thread has a control      *)
(* stack of the calls it is inside, the innermost call last.               *)
(***************************************************************************)

\* number of steps a program runs
NSteps == 2
\* iterations of the loops of the programs (scaled down from the examples)
Ex1LoopF == 3
Ex1LoopG == 2
Ex3Loop == 5
DefaultLoop == 3
\* subtasks per thread the pause-target bitmaps are modelled for
MaxSubTasks == 3

Top(s) == s[Len(s)]
Pop(s) == SubSeq(s, 1, Len(s) - 1)
SetTop(s, f) == [s EXCEPT ![Len(s)] = f]
Min(S) == CHOOSE x \in S : \A y \in S : x <= y

\* std::vector indexed from 0
Size(v) == Cardinality(DOMAIN v)
EmptyVec == [i \in {} |-> 0]
PushBack(v, x) == [i \in 0..Size(v) |-> IF i < Size(v) THEN v[i] ELSE x]

RECURSIVE Rep(_, _)
Rep(n, s) == IF n = 0 THEN <<>> ELSE s \o Rep(n - 1, s)

\* Range<Ratio>(1), the range of assign_run, and the default of assign_loop
Full == Range(Ratio(0, 1), Ratio(1, 1))

\* ---- the calls a program makes ----
OpClear == [op |-> "clearAssignments"]
OpAssign(l, t, r) == [op |-> "assign", label |-> l, threadId |-> t, range |-> r]
OpSetCoroutine(l, ts, nx) == [op |-> "setCoroutine", label |-> l, threadIds |-> ts, nextTasks |-> nx]
OpAutoBalance(l) == [op |-> "enableTaskAutoBalancing", label |-> l]
OpNextStep == [op |-> "nextStep"]
OpRun(l) == [op |-> "run", label |-> l]
OpWait == [op |-> "wait"]
OpDefaultFor(n) == [op |-> "defaultFor", end |-> n]
OpDefaultRun(l) == [op |-> "defaultRun", label |-> l]
OpWaitForTask(inst, l) == [op |-> "waitForTask", this |-> inst, label |-> l]
OpSetHighPriority(l) == [op |-> "setHighPriority", label |-> l]
OpYield == [op |-> "yield"]
OpSkipRun(l) == [op |-> "skipRun", label |-> l]
OpSkipLoop(l) == [op |-> "skipLoop", label |-> l]
OpShutdown == [op |-> "shutdown"]
OpFor(l, n, r) == [op |-> "parallel_for", label |-> l, end |-> n, red |-> r]
OpPause(cp) == [op |-> "pause", cp |-> cp]
OpSetCheckPoint(cp) == [op |-> "setCheckPoint", cp |-> cp]
OpCreateReduction(l, init) == [op |-> "createTaskReduction", label |-> l, init |-> init]

\* ex1.cpp: F on thread 1, G on thread 2, thread 0 helps with the loops
AssignEx1 ==
    << OpClear,
       OpAssign("F", 1, Full),
       OpAssign("G", 2, Full),
       OpAssign("F_0", 1, Range(Ratio(0, 1), Ratio(4, 6))),
       OpAssign("G_0", 2, Range(Ratio(0, 1), Ratio(3, 6))),
       OpAssign("G_1", 2, Range(Ratio(0, 1), Ratio(3, 6))),
       OpAssign("G_0", 0, Range(Ratio(3, 6), Ratio(1, 1))),
       OpAssign("F_0", 0, Range(Ratio(4, 6), Ratio(1, 1))),
       OpAssign("G_1", 0, Range(Ratio(3, 6), Ratio(1, 1))) >>

ProgEx1 ==
    Rep(NSteps, AssignEx1 \o << OpNextStep, OpRun("F"), OpRun("G"), OpWait >>)
    \o << OpShutdown >>

\* ex7.cpp: two coroutines on the only thread, each the other's successor
ProgEx7 ==
    << OpClear,
       OpAssign("F", 0, Full),
       OpAssign("G", 0, Full),
       OpSetCoroutine("F", {0}, {"G"}),
       OpSetCoroutine("G", {0}, {"F"}),
       OpNextStep, OpRun("F"), OpRun("G"), OpWait,
       OpShutdown >>

\* ex3.cpp on two threads with an uneven partition, auto-balancing enabled,
\* followed by a loop on the default schedule
ProgEx3 ==
    << OpClear,
       OpAssign("F", 0, Full),
       OpAssign("F_0", 0, Range(Ratio(0, 1), Ratio(1, 5))),
       OpAssign("F_0", 1, Range(Ratio(1, 5), Ratio(1, 1))),
       OpAutoBalance("F_0") >>
    \o Rep(NSteps, << OpNextStep, OpRun("F"), OpWait >>)
    \o << OpDefaultFor(DefaultLoop), OpShutdown >>

\* a coroutine task on two threads: thread 1 pauses until checkpoint 1,
\* thread 0 sets checkpoint 1
ProgCkpt ==
    << OpClear,
       OpAssign("C", 0, Full),
       OpAssign("C", 1, Full),
       OpSetCoroutine("C", {0, 1}, {}),
       OpNextStep, OpRun("C"), OpWait,
       OpShutdown >>

\* two run tasks that do not depend on each other, assigned to one thread
\* one after the other (as TASK_F and COMM of ex11.cpp are), a run of a
\* label that is not assigned, and a run on the default scheduler
ProgSeq ==
    << OpClear,
       OpAssign("F", 1, Full),
       OpAssign("COMM", 1, Full),
       OpNextStep, OpRun("F"), OpRun("H"), OpRun("COMM"), OpWait,
       OpDefaultRun("H"),
       OpShutdown >>

\* the number of iterations of the loop of program skip
SkipLoopLen == 2

\* a step that runs F and its loop F_0, then a step that skips both
ProgSkip ==
    << OpClear,
       OpAssign("F", 1, Full),
       OpAssign("F_0", 1, Range(Ratio(0, 1), Ratio(1, 2))),
       OpAssign("F_0", 0, Range(Ratio(1, 2), Ratio(1, 1))),
       OpNextStep, OpRun("F"), OpWait,
       OpNextStep, OpSkipRun("H"), OpSkipRun("F"), OpSkipLoop("F_0"), OpWait,
       OpShutdown >>

\* the number of iterations of the loop of program multi
MultiLoopLen == 3

\* a loop of which thread 0 holds two parts and thread 1, which calls it,
\* one part
ProgMulti ==
    << OpClear,
       OpAssign("F", 1, Full),
       OpAssign("F_0", 1, Range(Ratio(0, 1), Ratio(1, 3))),
       OpAssign("F_0", 0, Range(Ratio(1, 3), Ratio(2, 3))),
       OpAssign("F_0", 0, Range(Ratio(2, 3), Ratio(1, 1))),
       OpNextStep, OpRun("F"), OpWait,
       OpShutdown >>

\* a loop of which thread 1, which calls it, holds two parts and thread 0
\* one part
ProgMulti2 ==
    << OpClear,
       OpAssign("F", 1, Full),
       OpAssign("F_0", 1, Range(Ratio(0, 1), Ratio(1, 3))),
       OpAssign("F_0", 1, Range(Ratio(1, 3), Ratio(2, 3))),
       OpAssign("F_0", 0, Range(Ratio(2, 3), Ratio(1, 1))),
       OpNextStep, OpRun("F"), OpWait,
       OpShutdown >>

\* the number of iterations of the loops of program unas
UnasLoopLen == 3

\* loops and waits on labels that are not assigned, a wait on an assigned
\* label, and a wait on the default instance
ProgUnas ==
    << OpClear,
       OpAssign("F", 1, Full),
       OpNextStep,
       OpFor("X", UnasLoopLen, FALSE), OpWaitForTask("user", "X"),
       OpRun("F"), OpWaitForTask("user", "F"),
       OpWait,
       OpWaitForTask("default", "default"),
       OpShutdown >>

\* ex6.cpp: the tasks F, G and H call yield, each on its thread, and the
\* high-priority task COMM follows F on thread 1
ProgEx6 ==
    << OpClear,
       OpAssign("F", 1, Full),
       OpAssign("G", 2, Full),
       OpAssign("H", 0, Full),
       OpAssign("COMM", 1, Full),
       OpSetHighPriority("COMM"),
       OpNextStep, OpRun("F"), OpRun("G"), OpRun("COMM"), OpRun("H"), OpWait,
       OpShutdown >>

\* a label published twice in one step: run, then skipRun
ProgRerun ==
    << OpClear,
       OpAssign("F", 1, Full),
       OpNextStep, OpRun("F"), OpSkipRun("F"), OpWait,
       OpShutdown >>

\* a coroutine task C with successor G: on thread 1 it pauses until
\* checkpoint 1 and G is assigned after it, on thread 0 it sets checkpoint 1
ProgSucc ==
    << OpClear,
       OpAssign("C", 0, Full),
       OpAssign("C", 1, Full),
       OpAssign("G", 1, Full),
       OpSetCoroutine("C", {0, 1}, {"G"}),
       OpNextStep, OpRun("G"), OpRun("C"), OpWait,
       OpShutdown >>

\* two steps of a task whose function sets checkpoint 2, then checkpoint 1
ProgCpDown ==
    << OpClear,
       OpAssign("C", 1, Full) >>
    \o Rep(2, << OpNextStep, OpRun("C"), OpWait >>)
    \o << OpShutdown >>

\* enableTaskAutoBalancing called between nextStep and wait
ProgLate ==
    << OpClear,
       OpAssign("F", 1, Full),
       OpNextStep, OpAutoBalance("F"), OpRun("F"), OpWait,
       OpShutdown >>

\* a step with coroutine C and its successor G on thread 1, then
\* clearAssignments and a step with H and G, no coroutine, on thread 1
ProgReassign ==
    << OpClear,
       OpAssign("C", 1, Full),
       OpAssign("G", 1, Full),
       OpSetCoroutine("C", {1}, {"G"}),
       OpNextStep, OpRun("G"), OpRun("C"), OpWait,
       OpClear,
       OpAssign("H", 1, Full),
       OpAssign("G", 1, Full),
       OpNextStep, OpRun("G"), OpRun("H"), OpWait,
       OpShutdown >>

\* wait called a second time right after the first
ProgWait2 ==
    << OpClear,
       OpAssign("F", 1, Full),
       OpNextStep, OpRun("F"), OpWait, OpWait,
       OpShutdown >>

\* shutdown right after startup: the workers have processed no step
ProgNone == << OpShutdown >>

\* nextStep called a second time before wait
ProgTwice ==
    << OpClear,
       OpAssign("F", 1, Full),
       OpNextStep, OpNextStep, OpRun("F"), OpWait,
       OpShutdown >>

Progs == {"ex1", "ex7", "ex3", "ckpt", "seq", "none", "twice", "skip", "multi", "rerun", "succ", "cpdown", "late", "multi2", "unas", "ex6", "reassign", "wait2"}

Program(p) ==
    CASE p = "ex1" -> ProgEx1
      [] p = "ex7" -> ProgEx7
      [] p = "ex3" -> ProgEx3
      [] p = "ckpt" -> ProgCkpt
      [] p = "seq" -> ProgSeq
      [] p = "none" -> ProgNone
      [] p = "twice" -> ProgTwice
      [] p = "skip" -> ProgSkip
      [] p = "multi" -> ProgMulti
      [] p = "multi2" -> ProgMulti2
      [] p = "unas" -> ProgUnas
      [] p = "ex6" -> ProgEx6
      [] p = "rerun" -> ProgRerun
      [] p = "succ" -> ProgSucc
      [] p = "cpdown" -> ProgCpDown
      [] p = "late" -> ProgLate
      [] p = "reassign" -> ProgReassign
      [] p = "wait2" -> ProgWait2
      [] OTHER -> <<>>

\* the largest number of threads a program starts
MaxNumThreads == 3

\* the argument of STS::startup
NumThreadsOf(p) ==
    CASE p \in {"ex1", "ex6"} -> 3
      [] p = "ex7" -> 1
      [] OTHER -> 2

\* the function passed to run(label, function), as executed by thread tid
Body(p, l, tid) ==
    CASE p = "ex1" /\ l = "F" -> << OpFor("F_0", Ex1LoopF, FALSE) >>
      [] p = "ex1" /\ l = "G" -> << OpFor("G_0", Ex1LoopG, FALSE), OpFor("G_1", Ex1LoopG, FALSE) >>
      [] p = "ex7" /\ l = "F" -> << OpPause(0), OpPause(0) >>
      [] p = "ex7" /\ l = "G" -> << OpPause(0) >>
      [] p = "ex3" /\ l = "F" -> << OpCreateReduction("F_0", 0), OpFor("F_0", Ex3Loop, TRUE) >>
      [] p = "ckpt" /\ l = "C" -> IF tid = 0 THEN << OpSetCheckPoint(1) >> ELSE << OpPause(1) >>
      [] p = "succ" /\ l = "C" -> IF tid = 0 THEN << OpSetCheckPoint(1) >> ELSE << OpPause(1) >>
      [] p = "cpdown" /\ l = "C" -> << OpSetCheckPoint(2), OpSetCheckPoint(1) >>
      [] p = "seq" /\ l = "F" -> << OpPause(0) >>
      [] p = "skip" /\ l = "F" -> << OpFor("F_0", SkipLoopLen, FALSE) >>
      [] p = "ex6" /\ l \in {"F", "G", "H"} -> << OpYield >>
      [] p = "unas" /\ l = "F" -> << OpFor("Y", UnasLoopLen, FALSE), OpWaitForTask("user", "Y") >>
      [] p \in {"multi", "multi2"} /\ l = "F" -> << OpFor("F_0", MultiLoopLen, FALSE) >>
      [] OTHER -> <<>>

\* whether the body passed to parallel_for(label, ...) calls collect(1)
BodyCollects(p, l) == p = "ex3" /\ l = "F_0"

\* ---- Task ----
NoFunctor == [kind |-> "none"]
BasicTaskFunctor(l, s) == [kind |-> "basic", label |-> l, step |-> s]
LoopTaskFunctor(l, r, s) == [kind |-> "loop", label |-> l, range |-> r, step |-> s]

\* Task::Task(label); the barriers as constructed: begin locked, end at 0
NewTask(l) ==
    [label |-> l, subtasks_ |-> <<>>, threadTaskIds_ |-> <<>>,
     runAsCoroutine_ |-> {}, nextTasks_ |-> {}, autoBalancing_ |-> FALSE,
     functor_ |-> NoFunctor, isLocked |-> TRUE, numThreadsRemaining |-> 0,
     checkPoint_ |-> 0, reduction_ |-> FALSE, highPriority_ |-> FALSE,
     gExec |-> EmptyVec]

\* SubTask::SubTask(tid, task, range); gRan, gHolding, gCalls, gSucc are
\* history: own range finished in this step, stolen range taken and not yet
\* finished, number of calls of the function of a basic functor in this
\* step, the successors that were runnable when the subtask was paused with
\* a checkpoint its Task had not reached
NewSubTask(tid, task, range) ==
    [threadId_ |-> tid, task_ |-> task, range_ |-> range, lr_ |-> "null",
     saved |-> <<>>, isDone_ |-> FALSE, checkPoint_ |-> 0,
     doingExtraWork_ |-> FALSE, workingRange_ |-> Range(0, 0),
     runInfo_ |-> NoRunInfo, gRan |-> FALSE, gHolding |-> FALSE, gCalls |-> 0,
     gSucc |-> {}]

\* Task::pushSubtask(threadId, t): t is subtask stid of thread threadId
PushSubtask(task, threadId, stid) ==
    [task EXCEPT
        !.subtasks_ = Append(@, <<threadId, stid>>),
        !.threadTaskIds_ =
            IF \E i \in DOMAIN task.threadTaskIds_ : task.threadTaskIds_[i] = threadId
            THEN @ ELSE Append(@, threadId)]

\* Mutant: clearSubtasks leaves the subtasks of the Task.
ClearSubtasks_KeepSubtasks(task) == [task EXCEPT !.threadTaskIds_ = <<>>]

\* Task::clearSubtasks
ClearSubtasks(task) == [task EXCEPT !.subtasks_ = <<>>, !.threadTaskIds_ = <<>>]

\* Task::getNumThreads
GetNumThreads(task) == Len(task.threadTaskIds_)

\* Task::getThreadId(threadId): the task-local id of a thread, -1 if none
GetThreadId(task, threadId) ==
    IF \E i \in DOMAIN task.threadTaskIds_ : task.threadTaskIds_[i] = threadId
    THEN (CHOOSE i \in DOMAIN task.threadTaskIds_ : task.threadTaskIds_[i] = threadId) - 1
    ELSE -1

\* Task::isCoroutine(tid)
IsCoroutine(task, tid) == tid \in task.runAsCoroutine_

\* Mutant: init closes the end barrier for one arrival per thread.
TaskInit_CountThreads(task) ==
    [task EXCEPT !.functor_ = NoFunctor, !.isLocked = TRUE,
                 !.numThreadsRemaining = GetNumThreads(task), !.checkPoint_ = 0]

\* Mutant: init leaves the functor and the begin barrier of the last step.
TaskInit_KeepFunctor(task) ==
    [task EXCEPT !.numThreadsRemaining = Len(task.subtasks_), !.checkPoint_ = 0]

\* Task::init: functor cleared, begin barrier closed, end barrier closed
\* for getNumSubtasks() arrivals, checkpoint 0
TaskInit(task) ==
    [task EXCEPT !.functor_ = NoFunctor, !.isLocked = TRUE,
                 !.numThreadsRemaining = Len(task.subtasks_), !.checkPoint_ = 0]

\* Mutant: the functor is stored and the begin barrier stays closed.
SetFunctorImpl_StoreOnly(task, f) == [task EXCEPT !.functor_ = f]

\* Task::setFunctorImpl(f): functor_.reset(f), functorBeginBarrier_.open()
SetFunctorImpl(task, f) == [task EXCEPT !.functor_ = f, !.isLocked = FALSE]

\* Task::isReady: MOBarrier::isOpen
IsReady(task) == ~task.isLocked

\* Mutant: Task::wait returns without looking at the end barrier.
EndBarrierPassed_NoWait(task) == TRUE

\* Task::wait: OMBarrier::wait returns once numThreadsRemaining is 0
EndBarrierPassed(task) == task.numThreadsRemaining = 0

\* SubTask::reset: isDone_ and checkPoint_ (and the history of the step)
SubTaskReset(st) ==
    [st EXCEPT !.isDone_ = FALSE, !.checkPoint_ = 0, !.gRan = FALSE, !.gHolding = FALSE,
                !.gCalls = 0, !.gSucc = {}]

\* ---- STS ----
Insts == {"default", "user"}

\* STS::STS(name) for n threads
NewSTS(n, dflt) ==
    [bUseDefaultSchedule_ |-> dflt, isActive_ |-> FALSE, tasks_ |-> EmptyVec,
     threadSubTasks_ |-> [t \in 0..(n-1) |-> EmptyVec],
     threadCallStacks_ |-> [t \in 0..(n-1) |-> <<>>],
     systemProgressed_ |-> [t \in 0..(n-1) |-> 0],
     nextSubTasks_ |-> [t \in 0..(n-1) |-> [s \in 0..(MaxSubTasks-1) |-> {}]]]

\* STS::isTaskAssigned(label): taskLabels_ holds the label
IsTaskAssigned(o, l) == \E i \in DOMAIN o.tasks_ : o.tasks_[i].label = l

\* STS::getTaskId(label)
GetTaskId(o, l) == CHOOSE i \in DOMAIN o.tasks_ : o.tasks_[i].label = l

\* STS::setTask(label): the id of the label, a new Task if it has none
SetTask(o, l) ==
    IF IsTaskAssigned(o, l) THEN o
    ELSE [o EXCEPT !.tasks_ = PushBack(@, NewTask(l))]

\* STS::assign(label, threadId, range)
Assign(o, l, threadId, range) ==
    LET o1 == SetTask(o, l)
        id == GetTaskId(o1, l)
        stid == Size(o1.threadSubTasks_[threadId])
    IN [o1 EXCEPT
          !.threadSubTasks_[threadId] = PushBack(@, NewSubTask(threadId, id, range)),
          !.tasks_[id] = PushSubtask(@, threadId, stid)]

\* STS::clearAssignments
ClearAssignments(o) ==
    [o EXCEPT
       !.threadSubTasks_ = [t \in DOMAIN o.threadSubTasks_ |-> EmptyVec],
       !.tasks_ = [i \in DOMAIN o.tasks_ |-> ClearSubtasks(o.tasks_[i])]]

\* Mutant: the last thread gets no part of the default loop.
RECURSIVE AssignDefault_SkipLast(_, _, _)
AssignDefault_SkipLast(o, id, n) ==
    IF id >= n - 1 THEN o
    ELSE AssignDefault_SkipLast(Assign(o, "default", id, Range(Ratio(id, n), Ratio(id + 1, n))),
                                id + 1, n)

RECURSIVE AssignDefault(_, _, _)
AssignDefault(o, id, n) ==
    IF id >= n THEN o
    ELSE AssignDefault(Assign(o, "default", id, Range(Ratio(id, n), Ratio(id + 1, n))),
                       id + 1, n)

\* STS::setDefaultSchedule: an even partition of the task "default"
SetDefaultSchedule(o, n) ==
    AssignDefault(ClearAssignments([o EXCEPT !.bUseDefaultSchedule_ = TRUE]), 0, n)

\* STS::setCoroutine(label, threadIds, nextTasks)
SetCoroutine(o, l, threadIds, nextTasks) ==
    [o EXCEPT !.tasks_[GetTaskId(o, l)] =
        [@ EXCEPT !.runAsCoroutine_ = @ \cup threadIds, !.nextTasks_ = nextTasks]]

\* STS::setHighPriority(label): the Task is marked as a target of yield
SetHighPriority(o, l) ==
    [o EXCEPT !.tasks_[GetTaskId(o, l)].highPriority_ = TRUE]

\* STS::enableTaskAutoBalancing(label)
EnableTaskAutoBalancing(o, l) ==
    [o EXCEPT !.tasks_[GetTaskId(o, l)].autoBalancing_ = TRUE]

\* STS::markStateChange: every thread's systemProgressed_ counter + 1
MarkStateChange(o) ==
    [o EXCEPT !.systemProgressed_ = [t \in DOMAIN @ |-> @[t] + 1]]

\* STS::getNumSubTasks(threadId)
GetNumSubTasks(o, tid) == Size(o.threadSubTasks_[tid])

\* STS::getCurrentSubTaskId: top of the thread's call stack, -1 when empty
GetCurrentSubTaskId(o, tid) ==
    IF o.threadCallStacks_[tid] = <<>> THEN -1 ELSE Top(o.threadCallStacks_[tid])

\* the Task of subtask stid of thread tid
TaskOf(o, tid, stid) == o.tasks_[o.threadSubTasks_[tid][stid].task_]

\* nextStepInternal, the pause targets of coroutine subtask stid of thread
\* tid: the later subtasks of the thread whose label is a successor
PauseTargets(o, tid, stid) ==
    {stid2 \in (stid+1)..(GetNumSubTasks(o, tid) - 1) :
        TaskOf(o, tid, stid2).label \in TaskOf(o, tid, stid).nextTasks_}

\* nextStepInternal up to the increment of the step counter: bitmaps of
\* the coroutine subtasks, isActive_, restart of every Task
NextStepInternal(o) ==
    [o EXCEPT
       !.nextSubTasks_ =
           [t \in DOMAIN @ |-> [s \in DOMAIN @[t] |->
               IF s < GetNumSubTasks(o, t) /\ IsCoroutine(TaskOf(o, t, s), t)
               THEN PauseTargets(o, t, s) ELSE @[t][s]]],
       !.isActive_ = TRUE,
       !.tasks_ = [i \in DOMAIN @ |-> TaskInit(@[i])],
       !.threadSubTasks_ = [t \in DOMAIN @ |-> [s \in DOMAIN @[t] |-> SubTaskReset(@[t][s])]]]

\* Mutant: the step counter advances by two.
StepCounterFetchAdd_Two(c) == c + 2

\* stepCounter_.fetch_add(1)
StepCounterFetchAdd(c) == c + 1

\* the end of nextStepInternal: systemProgressed_ reset for every thread
ResetSystemProgressed(o) ==
    [o EXCEPT !.systemProgressed_ = [t \in DOMAIN @ |-> 0]]

\* ---- frames of the control stacks ----
FrMain == [k |-> "main", pc |-> 1]
FrDoWork == [k |-> "doWork", i |-> 0, pc |-> "arrive", gSteps |-> <<>>]
FrNSI(this) == [k |-> "nextStepInternal", this |-> this, pc |-> "start"]
FrMSC(this) == [k |-> "markStateChange", this |-> this]
FrWI(this, n) == [k |-> "waitInternal", this |-> this, i |-> 1,
                  pc |-> IF n > 1 THEN "tasks" ELSE "barrier"]
FrRAS(this) == [k |-> "runAllSubTasks", this |-> this, stid |-> 0]
FrRST(this, stid) == [k |-> "runSubTask", this |-> this, stid |-> stid, pc |-> "cp",
                      isDone |-> FALSE, targetsRemain |-> TRUE]
FrLR(stid) == [k |-> "LambdaRunner", stid |-> stid]
FrTR(this, stid, stolen) == [k |-> "Task::run", this |-> this, stid |-> stid,
                             stolen |-> stolen, pc |-> "begin", f |-> NoFunctor, at |-> 0]
\* gRet is history: what the last pause called by the function returned
FrBody(l) == [k |-> "function", label |-> l, pc |-> 1, gRet |-> "none"]
FrPF(this, task, r, n, pc) == [k |-> "parallel_for", this |-> this, task |-> task,
                               red |-> r, end |-> n, pc |-> pc]
FrRNL(this, task, stid) == [k |-> "runNestedLoop", this |-> this, task |-> task,
                            stid |-> stid, pc |-> "scan"]
FrInline(n) == [k |-> "inline", i |-> 0, end |-> n, gBody |-> <<>>]
FrWFT(this, task) == [k |-> "waitForTask", this |-> this, task |-> task]
FrPause(cp, v) == [k |-> "pause", cp |-> cp, v |-> v]
FrJoin == [k |-> "join"]

\* thread t exists, the process has not aborted and t is inside a call
Running(t) == ~aborted /\ t \in DOMAIN ctl /\ ctl[t] # <<>>
At(t, kind) == Running(t) /\ Top(ctl[t]).k = kind
AtPc(t, kind, pc) == At(t, kind) /\ Top(ctl[t]).pc = pc

\* the calls of the code a frame of the main program or of a function runs
Script(t, fr) == IF fr.k = "main" THEN Program(prog) ELSE Body(prog, fr.label, t)
OpAt(t, op) ==
    /\ Running(t)
    /\ Top(ctl[t]).k \in {"main", "function"}
    /\ Top(ctl[t]).pc <= Len(Script(t, Top(ctl[t])))
    /\ Script(t, Top(ctl[t]))[Top(ctl[t]).pc].op = op
CurOp(t) == Script(t, Top(ctl[t]))[Top(ctl[t]).pc]
\* the stack with the top frame moved past its current call
Adv(s) == SetTop(s, [Top(s) EXCEPT !.pc = @ + 1])
\* the stack with the pc of the top frame set
Goto(s, pc) == SetTop(s, [Top(s) EXCEPT !.pc = pc])
\* the stack of a function to which pause returns v
PauseReturns(s, v) == SetTop(s, [Top(s) EXCEPT !.gRet = IF v THEN "true" ELSE "false"])

\* the scheduler object the programs use, created by new STS()
UserSTS == "user"

NoReduction == [values |-> <<>>, result |-> 0]
NoRedHist == [init |-> 0, collected |-> 0, reduced |-> FALSE]

\* Mutant: startup closes the step barrier for one arrival of each worker.
StartupClose_Once(n) == n - 1

\* STS::startup: stepCounterBarrier_.close(2*(numThreads-1)), each worker
\* enters the barrier twice the first time it is used
StartupClose(n) == 2 * (n - 1)

\* the state after STS::startup(numThreads) and new STS()
STSInit ==
    /\ prog \in Progs
    /\ numThreads = NumThreadsOf(prog)
    /\ stepCounter_ = 0
    /\ stepCounterBarrier_ = StartupClose(numThreads)
    /\ instance_ = "default"
    /\ sts = [i \in Insts |->
                IF i = "default"
                THEN SetDefaultSchedule(NewSTS(numThreads, FALSE), numThreads)
                ELSE NewSTS(numThreads, FALSE)]
    /\ ctl = [t \in 0..(numThreads - 1) |-> IF t = 0 THEN <<FrMain>> ELSE <<FrDoWork>>]
    /\ red = NoReduction
    /\ redHist = NoRedHist
    /\ aborted = FALSE

\* the scheduler variables while another specification runs
STSIdle ==
    /\ prog = "none"
    /\ numThreads = 1
    /\ stepCounter_ = 0
    /\ stepCounterBarrier_ = 0
    /\ instance_ = "default"
    /\ sts = [i \in Insts |-> NewSTS(1, i = "default")]
    /\ ctl = [t \in {0} |-> <<>>]
    /\ red = NoReduction
    /\ redHist = NoRedHist
    /\ aborted = FALSE

\* ---- assignment calls of the main thread ----
ClearAssignmentsCall(t) ==
    /\ OpAt(t, "clearAssignments")
    /\ sts' = [sts EXCEPT ![UserSTS] = ClearAssignments(@)]
    /\ ctl' = [ctl EXCEPT ![t] = Adv(@)]
    /\ UNCHANGED <<numThreads, prog, stepCounter_, stepCounterBarrier_, instance_,
                   red, redHist, aborted, notSTS>>

AssignCall(t) ==
    /\ OpAt(t, "assign")
    /\ sts' = [sts EXCEPT ![UserSTS] =
                  Assign(@, CurOp(t).label, CurOp(t).threadId, CurOp(t).range)]
    /\ ctl' = [ctl EXCEPT ![t] = Adv(@)]
    /\ UNCHANGED <<numThreads, prog, stepCounter_, stepCounterBarrier_, instance_,
                   red, redHist, aborted, notSTS>>

SetCoroutineCall(t) ==
    /\ OpAt(t, "setCoroutine")
    /\ sts' = [sts EXCEPT ![UserSTS] =
                  SetCoroutine(@, CurOp(t).label, CurOp(t).threadIds, CurOp(t).nextTasks)]
    /\ ctl' = [ctl EXCEPT ![t] = Adv(@)]
    /\ UNCHANGED <<numThreads, prog, stepCounter_, stepCounterBarrier_, instance_,
                   red, redHist, aborted, notSTS>>

SetHighPriorityCall(t) ==
    /\ OpAt(t, "setHighPriority")
    /\ sts' = [sts EXCEPT ![UserSTS] = SetHighPriority(@, CurOp(t).label)]
    /\ ctl' = [ctl EXCEPT ![t] = Adv(@)]
    /\ UNCHANGED <<numThreads, prog, stepCounter_, stepCounterBarrier_, instance_,
                   red, redHist, aborted, notSTS>>

EnableTaskAutoBalancingCall(t) ==
    /\ OpAt(t, "enableTaskAutoBalancing")
    /\ sts' = [sts EXCEPT ![UserSTS] = EnableTaskAutoBalancing(@, CurOp(t).label)]
    /\ ctl' = [ctl EXCEPT ![t] = Adv(@)]
    /\ UNCHANGED <<numThreads, prog, stepCounter_, stepCounterBarrier_, instance_,
                   red, redHist, aborted, notSTS>>

\* ---- the step ----
\* STS::nextStep: nextStepInternal unless the schedule is the default one
NextStep(t) ==
    /\ OpAt(t, "nextStep")
    /\ ctl' = [ctl EXCEPT ![t] =
                  IF sts[UserSTS].bUseDefaultSchedule_ THEN Adv(@)
                  ELSE Append(Adv(@), FrNSI(UserSTS))]
    /\ UNCHANGED <<numThreads, prog, stepCounter_, stepCounterBarrier_, instance_, sts,
                   red, redHist, aborted, notSTS>>

\* STS::nextStepInternal up to the restart of the Tasks
NextStepInternalStart(t) ==
    /\ AtPc(t, "nextStepInternal", "start")
    /\ LET this == Top(ctl[t]).this
       IN IF ~sts[instance_].bUseDefaultSchedule_
             \/ (~sts[this].isActive_ /\ sts[instance_].isActive_)
          THEN \* assert(instance_->bUseDefaultSchedule_), assert(!instance_->isActive_)
               /\ aborted' = TRUE
               /\ UNCHANGED <<stepCounter_, instance_, sts, ctl>>
          ELSE IF sts[this].isActive_
          THEN /\ ctl' = [ctl EXCEPT ![t] = Pop(@)]
               /\ UNCHANGED <<stepCounter_, instance_, sts, aborted>>
          ELSE /\ sts' = [sts EXCEPT ![this] = NextStepInternal(@)]
               /\ instance_' = this
               /\ ctl' = [ctl EXCEPT ![t] = Goto(@, "publish")]
               /\ UNCHANGED <<stepCounter_, aborted>>
    /\ UNCHANGED <<numThreads, prog, stepCounterBarrier_, red, redHist, notSTS>>

\* nextStepInternal: stepCounter_.fetch_add(1, std::memory_order_release)
NextStepInternalPublish(t) ==
    /\ AtPc(t, "nextStepInternal", "publish")
    /\ stepCounter_' = StepCounterFetchAdd(stepCounter_)
    /\ ctl' = [ctl EXCEPT ![t] = Goto(@, "reset")]
    /\ UNCHANGED <<numThreads, prog, stepCounterBarrier_, instance_, sts,
                   red, redHist, aborted, notSTS>>

\* the last loop of nextStepInternal
NextStepInternalEnd(t) ==
    /\ AtPc(t, "nextStepInternal", "reset")
    /\ sts' = [sts EXCEPT ![Top(ctl[t]).this] = ResetSystemProgressed(@)]
    /\ ctl' = [ctl EXCEPT ![t] = Pop(@)]
    /\ UNCHANGED <<numThreads, prog, stepCounter_, stepCounterBarrier_, instance_,
                   red, redHist, aborted, notSTS>>

\* STS::markStateChange, called by run, parallel_for and setCheckPoint
MarkStateChangeCall(t) ==
    /\ At(t, "markStateChange")
    /\ sts' = [sts EXCEPT ![Top(ctl[t]).this] = MarkStateChange(@)]
    /\ ctl' = [ctl EXCEPT ![t] = Pop(@)]
    /\ UNCHANGED <<numThreads, prog, stepCounter_, stepCounterBarrier_, instance_,
                   red, redHist, aborted, notSTS>>

\* functor_.reset(f) of task id deletes the functor it held; a thread that
\* is inside functor_->run() of that task, running or paused in a lambda
\* runner, then uses a deleted object
FunctorInUse(o, id) ==
    \/ \E t \in DOMAIN ctl : \E j \in DOMAIN ctl[t] :
          /\ ctl[t][j].k = "Task::run" /\ ctl[t][j].pc \in {"loop", "end"}
          /\ ctl[t][j].this = UserSTS
          /\ o.threadSubTasks_[t][ctl[t][j].stid].task_ = id
    \/ \E t \in DOMAIN o.threadSubTasks_ : \E s \in 0..(Size(o.threadSubTasks_[t]) - 1) :
          o.threadSubTasks_[t][s].task_ = id /\ o.threadSubTasks_[t][s].saved # <<>>

\* the outcomes of functor_.reset(f): the process goes on, or, when the
\* deleted functor is in use, it may also crash
ResetOutcomes(o, id) == IF FunctorInUse(o, id) THEN BOOLEAN ELSE {FALSE}

\* STS::run(label, function): the function is run by the caller when the
\* label is not assigned, else it is published as the functor of the task
Run(t) ==
    /\ OpAt(t, "run")
    /\ LET o == sts[UserSTS]
           l == CurOp(t).label
       IN IF instance_ # UserSTS \/ ~sts[instance_].isActive_
          THEN /\ aborted' = TRUE
               /\ UNCHANGED <<sts, ctl>>
          ELSE IF ~IsTaskAssigned(o, l)
          THEN /\ ctl' = [ctl EXCEPT ![t] = Append(Adv(@), FrBody(l))]
               /\ UNCHANGED <<sts, aborted>>
          ELSE /\ sts' = [sts EXCEPT ![UserSTS].tasks_[GetTaskId(o, l)] =
                              SetFunctorImpl(@, BasicTaskFunctor(l, stepCounter_))]
               /\ ctl' = [ctl EXCEPT ![t] = Append(Adv(@), FrMSC(UserSTS))]
               /\ aborted' \in ResetOutcomes(o, GetTaskId(o, l))
    /\ UNCHANGED <<numThreads, prog, stepCounter_, stepCounterBarrier_, instance_,
                   red, redHist, notSTS>>

\* the label the model gives the empty lambdas of skipRun and skipLoop
SkipLabel == "skip"

\* Mutant: skipRun and skipLoop publish nothing.
PublishSkip_Nothing(task, f) == task

\* skipRun, skipLoop: task->setFunctor(the functor of an empty lambda)
PublishSkip(task, f) ==
    SetFunctorImpl([task EXCEPT !.gExec = IF f.kind = "loop" THEN [i \in 0..0 |-> 0] ELSE @], f)

\* STS::skipRun(label), STS::skipLoop(label): nothing when the label has no
\* task, else a functor of an empty lambda is published: a basic one, or a
\* loop over {0, 1}
Skip(t) ==
    /\ OpAt(t, "skipRun") \/ OpAt(t, "skipLoop")
    /\ LET o == sts[UserSTS]
           l == CurOp(t).label
           f == IF CurOp(t).op = "skipRun"
                THEN BasicTaskFunctor(SkipLabel, stepCounter_)
                ELSE LoopTaskFunctor(SkipLabel, Range(0, 1), stepCounter_)
       IN IF ~IsTaskAssigned(o, l)
          THEN /\ ctl' = [ctl EXCEPT ![t] = Adv(@)]
               /\ UNCHANGED <<sts, aborted>>
          ELSE /\ sts' = [sts EXCEPT ![UserSTS].tasks_[GetTaskId(o, l)] = PublishSkip(@, f)]
               /\ ctl' = [ctl EXCEPT ![t] = Append(Adv(@), FrMSC(UserSTS))]
               /\ aborted' \in ResetOutcomes(o, GetTaskId(o, l))
    /\ UNCHANGED <<numThreads, prog, stepCounter_, stepCounterBarrier_, instance_,
                   red, redHist, notSTS>>

\* STS::run(label, function) of the default scheduler: the function is run
\* by the caller
DefaultRun(t) ==
    /\ OpAt(t, "defaultRun")
    /\ IF sts[instance_].isActive_ /\ instance_ # "default"
       THEN aborted' = TRUE /\ UNCHANGED ctl
       ELSE /\ ctl' = [ctl EXCEPT ![t] = Append(Adv(@), FrBody(CurOp(t).label))]
            /\ UNCHANGED aborted
    /\ UNCHANGED <<numThreads, prog, stepCounter_, stepCounterBarrier_, instance_, sts,
                   red, redHist, notSTS>>

\* STS::waitInternal after its asserts: nothing when the schedule is not
\* active, else the caller's queue is processed first
EnterWaitInternal(s, this) ==
    IF ~sts[this].isActive_ THEN s
    ELSE s \o << FrWI(this, Size(sts[this].tasks_)), FrRAS(this) >>

\* STS::wait: waitInternal unless the schedule is the default one
Wait(t) ==
    /\ OpAt(t, "wait")
    /\ IF instance_ # UserSTS
       THEN aborted' = TRUE /\ UNCHANGED ctl
       ELSE /\ ctl' = [ctl EXCEPT ![t] = EnterWaitInternal(Adv(@), UserSTS)]
            /\ UNCHANGED aborted
    /\ UNCHANGED <<numThreads, prog, stepCounter_, stepCounterBarrier_, instance_, sts,
                   red, redHist, notSTS>>

\* waitInternal: tasks_[i]->wait() for i = 1, 2, ...
WaitInternalTasks(t) ==
    /\ AtPc(t, "waitInternal", "tasks")
    /\ LET fr == Top(ctl[t])
           o == sts[fr.this]
       IN /\ EndBarrierPassed(o.tasks_[fr.i])
          /\ ctl' = [ctl EXCEPT ![t] =
                SetTop(@, [fr EXCEPT !.i = @ + 1,
                                     !.pc = IF fr.i + 1 < Size(o.tasks_)
                                            THEN "tasks" ELSE "barrier"])]
    /\ UNCHANGED <<numThreads, prog, stepCounter_, stepCounterBarrier_, instance_, sts,
                   red, redHist, aborted, notSTS>>

\* waitInternal: stepCounterBarrier_.wait()
WaitInternalBarrier(t) ==
    /\ AtPc(t, "waitInternal", "barrier")
    /\ stepCounterBarrier_ = 0
    /\ ctl' = [ctl EXCEPT ![t] = Goto(@, "close")]
    /\ UNCHANGED <<numThreads, prog, stepCounter_, stepCounterBarrier_, instance_, sts,
                   red, redHist, aborted, notSTS>>

\* Mutant: waitInternal leaves the schedule active.
Deactivate_Nothing(o) == o

\* waitInternal: isActive_ = false
Deactivate(o) == [o EXCEPT !.isActive_ = FALSE]

\* waitInternal: the barrier closed for the next step, the schedule
\* inactive, the default instance current
WaitInternalClose(t) ==
    /\ AtPc(t, "waitInternal", "close")
    /\ stepCounterBarrier_' = numThreads - 1
    /\ sts' = [sts EXCEPT ![Top(ctl[t]).this] = Deactivate(@)]
    /\ instance_' = "default"
    /\ ctl' = [ctl EXCEPT ![t] = Goto(@, "ret")]
    /\ UNCHANGED <<numThreads, prog, stepCounter_, red, redHist, aborted, notSTS>>

\* waitInternal returns to its caller
WaitInternalReturn(t) ==
    /\ AtPc(t, "waitInternal", "ret")
    /\ ctl' = [ctl EXCEPT ![t] = Pop(@)]
    /\ UNCHANGED <<numThreads, prog, stepCounter_, stepCounterBarrier_, instance_, sts,
                   red, redHist, aborted, notSTS>>

\* STS::shutdown: the step counter set to -1
Shutdown(t) ==
    /\ OpAt(t, "shutdown")
    /\ IF instance_ # "default"
       THEN aborted' = TRUE /\ UNCHANGED <<stepCounter_, ctl>>
       ELSE /\ stepCounter_' = -1
            /\ ctl' = [ctl EXCEPT ![t] = Append(Adv(@), FrJoin)]
            /\ UNCHANGED aborted
    /\ UNCHANGED <<numThreads, prog, stepCounterBarrier_, instance_, sts,
                   red, redHist, notSTS>>

\* STS::shutdown: threads_[i].join() for every worker
ShutdownJoin(t) ==
    /\ At(t, "join")
    /\ \A w \in DOMAIN ctl \ {0} : AtPc(w, "doWork", "done")
    /\ ctl' = [ctl EXCEPT ![t] = Pop(@)]
    /\ UNCHANGED <<numThreads, prog, stepCounter_, stepCounterBarrier_, instance_, sts,
                   red, redHist, aborted, notSTS>>

\* ---- worker threads ----
\* STS::waitOnStepCounter(i): stepCounterBarrier_.markArrival()
DoWorkArrive(t) ==
    /\ AtPc(t, "doWork", "arrive")
    /\ stepCounterBarrier_' = stepCounterBarrier_ - 1
    /\ ctl' = [ctl EXCEPT ![t] = Goto(@, "spin")]
    /\ UNCHANGED <<numThreads, prog, stepCounter_, instance_, sts,
                   red, redHist, aborted, notSTS>>

\* Thread::processQueue: the subtasks of the current instance are run
ProcessQueue(s) == Append(s, FrRAS(instance_))

\* Mutant: a worker never takes the counter as the signal to end.
Terminates_Never(c) == FALSE

\* Thread::doWork: if (c<0) break
Terminates(c) == c < 0

\* Thread::doWork: wait_until_not(stepCounter_, i) returns c; the thread
\* ends when c < 0, else it processes its queue and polls for i + 1;
\* gSteps is history: the values of c it has processed its queue for
DoWorkPoll(t) ==
    /\ AtPc(t, "doWork", "spin")
    /\ stepCounter_ # Top(ctl[t]).i
    /\ ctl' = [ctl EXCEPT ![t] =
          IF Terminates(stepCounter_) THEN Goto(@, "done")
          ELSE ProcessQueue(SetTop(@, [Top(@) EXCEPT !.i = @ + 1, !.pc = "arrive",
                                                  !.gSteps = Append(@, stepCounter_)]))]
    /\ UNCHANGED <<numThreads, prog, stepCounter_, stepCounterBarrier_, instance_, sts,
                   red, redHist, aborted, notSTS>>

\* ---- running subtasks ----
\* subtask stid of thread t in scheduler object o
SubTaskAt(o, t, stid) == o.threadSubTasks_[t][stid]

\* Mutant: the queue is walked without the test of the done flag.
NotDoneFrom_All(o, t, from) == from..(GetNumSubTasks(o, t) - 1)

\* the subtasks of thread t from index from on that are not done
NotDoneFrom(o, t, from) ==
    {s \in from..(GetNumSubTasks(o, t) - 1) : ~SubTaskAt(o, t, s).isDone_}

\* Mutant: runSubTask does not push the index.
CallRunSubTask_NoPush(o, t, stid) == o

\* the entry of STS::runSubTask(stid): the index pushed on the call stack
CallRunSubTask(o, t, stid) ==
    [o EXCEPT !.threadCallStacks_[t] = Append(@, stid)]

\* Mutant: the first subtask not done is skipped when another is not done.
NextInQueue_SkipFirst(S) == IF Cardinality(S) > 1 THEN Min(S \ {Min(S)}) ELSE Min(S)

\* the subtask a loop over the queue reaches first
NextInQueue(S) == Min(S)

\* STS::runAllSubTasks: runSubTask for the next subtask that is not done,
\* return when there is none
RunAllSubTasks(t) ==
    /\ At(t, "runAllSubTasks")
    /\ LET fr == Top(ctl[t])
           o == sts[fr.this]
           nd == NotDoneFrom(o, t, fr.stid)
       IN IF nd = {}
          THEN /\ ctl' = [ctl EXCEPT ![t] = Pop(@)]
               /\ UNCHANGED sts
          ELSE /\ sts' = [sts EXCEPT ![fr.this] = CallRunSubTask(@, t, NextInQueue(nd))]
               /\ ctl' = [ctl EXCEPT ![t] =
                     Append(SetTop(@, [fr EXCEPT !.stid = NextInQueue(nd) + 1]),
                            FrRST(fr.this, NextInQueue(nd)))]
    /\ UNCHANGED <<numThreads, prog, stepCounter_, stepCounterBarrier_, instance_,
                   red, redHist, aborted, notSTS>>

\* STS::yield, the subtask it runs: the caller's next subtask that is not
\* done, when its Task is marked high-priority and is ready; else none
YieldTarget(o, t) ==
    LET nd == NotDoneFrom(o, t, GetCurrentSubTaskId(o, t) + 1)
    IN IF nd # {} /\ TaskOf(o, t, NextInQueue(nd)).highPriority_
                  /\ IsReady(TaskOf(o, t, NextInQueue(nd)))
       THEN {NextInQueue(nd)} ELSE {}

\* STS::yield(): the target is run now, by runSubTask, which marks it
\* complete; without a target the call returns
Yield(t) ==
    /\ OpAt(t, "yield")
    /\ LET o == sts[UserSTS]
           tg == YieldTarget(o, t)
       IN IF tg = {}
          THEN /\ ctl' = [ctl EXCEPT ![t] = Adv(@)]
               /\ UNCHANGED sts
          ELSE /\ sts' = [sts EXCEPT ![UserSTS] = CallRunSubTask(@, t, NextInQueue(tg))]
               /\ ctl' = [ctl EXCEPT ![t] = Append(Adv(@), FrRST(UserSTS, NextInQueue(tg)))]
    /\ UNCHANGED <<numThreads, prog, stepCounter_, stepCounterBarrier_, instance_,
                   red, redHist, aborted, notSTS>>

\* runSubTask: st->waitForCheckPoint()
WaitForCheckPoint(t) ==
    /\ AtPc(t, "runSubTask", "cp")
    /\ LET fr == Top(ctl[t])
           o == sts[fr.this]
       IN TaskOf(o, t, fr.stid).checkPoint_ >= SubTaskAt(o, t, fr.stid).checkPoint_
    /\ ctl' = [ctl EXCEPT ![t] = Goto(@, "run")]
    /\ UNCHANGED <<numThreads, prog, stepCounter_, stepCounterBarrier_, instance_, sts,
                   red, redHist, aborted, notSTS>>

\* SubTask::runImpl: Task::run on the caller, or inside a lambda runner
\* for a coroutine: a new runner on the first run, cont() of the paused one
RunImpl(t) ==
    /\ AtPc(t, "runSubTask", "run")
    /\ LET fr == Top(ctl[t])
           o == sts[fr.this]
           st == SubTaskAt(o, t, fr.stid)
           below == Goto(ctl[t], "steal")
           tr == FrTR(fr.this, fr.stid, st.doingExtraWork_)
       IN IF ~IsCoroutine(o.tasks_[st.task_], t)
          THEN /\ ctl' = [ctl EXCEPT ![t] = Append(below, tr)]
               /\ UNCHANGED sts
          ELSE IF st.lr_ = "null"
          THEN /\ ctl' = [ctl EXCEPT ![t] = below \o << FrLR(fr.stid), tr >>]
               /\ sts' = [sts EXCEPT ![fr.this].threadSubTasks_[t][fr.stid].lr_ = "running"]
          ELSE /\ ctl' = [ctl EXCEPT ![t] = below \o st.saved]
               /\ sts' = [sts EXCEPT ![fr.this].threadSubTasks_[t][fr.stid] =
                             [@ EXCEPT !.lr_ = "running", !.saved = <<>>]]
    /\ UNCHANGED <<numThreads, prog, stepCounter_, stepCounterBarrier_, instance_,
                   red, redHist, aborted, notSTS>>

\* BasicTaskFunctor::run before func_(): the run info of a single iteration
BasicStart(ri) == [ri EXCEPT !.startIter = 0, !.endIter = 1, !.currentIter = 0]

\* Task::run: functorBeginBarrier_.wait(), then functor_->run(range, ...)
\* up to the first call of the function or of the loop body
TaskRunBegin(t) ==
    /\ AtPc(t, "Task::run", "begin")
    /\ LET fr == Top(ctl[t])
           o == sts[fr.this]
           st == SubTaskAt(o, t, fr.stid)
           task == o.tasks_[st.task_]
           f == task.functor_
           r == IF fr.stolen THEN st.workingRange_ ELSE Subset(f.range, st.range_)
           called == [fr EXCEPT !.f = f, !.at = stepCounter_]
       IN /\ IsReady(task)
          /\ IF f.kind = "none"
             THEN \* a null functor_ is dereferenced
                  /\ aborted' = TRUE
                  /\ ctl' = [ctl EXCEPT ![t] = SetTop(@, [called EXCEPT !.pc = "null"])]
                  /\ UNCHANGED sts
             ELSE IF f.kind = "basic"
             THEN /\ sts' = [sts EXCEPT ![fr.this].threadSubTasks_[t][fr.stid] =
                                 [@ EXCEPT !.runInfo_ = BasicStart(@), !.gCalls = @ + 1]]
                  /\ ctl' = [ctl EXCEPT ![t] =
                        Append(SetTop(@, [called EXCEPT !.pc = "end"]), FrBody(f.label))]
                  /\ UNCHANGED aborted
             ELSE /\ sts' = [sts EXCEPT ![fr.this].threadSubTasks_[t][fr.stid].runInfo_ =
                                 LoopStart(r)]
                  /\ ctl' = [ctl EXCEPT ![t] =
                        SetTop(@, [called EXCEPT !.pc =
                                      IF LoopStart(r).isRunning THEN "loop" ELSE "end"])]
                  /\ UNCHANGED aborted
    /\ UNCHANGED <<numThreads, prog, stepCounter_, stepCounterBarrier_, instance_,
                   red, redHist, notSTS>>

\* LoopTaskFunctor::run, one pass of the loop: body_(ci), which may call
\* collect(1), then the advance of currentIter under the mutex
LoopIter(t) ==
    /\ AtPc(t, "Task::run", "loop")
    /\ LET fr == Top(ctl[t])
           o == sts[fr.this]
           st == SubTaskAt(o, t, fr.stid)
           task == o.tasks_[st.task_]
           ci == st.runInfo_.currentIter
           ri == LoopAdvance(st.runInfo_)
           collects == BodyCollects(prog, fr.f.label) /\ task.reduction_
       IN /\ sts' = [sts EXCEPT
                ![fr.this].threadSubTasks_[t][fr.stid].runInfo_ = ri,
                ![fr.this].tasks_[st.task_].gExec =
                    IF ci \in DOMAIN @ THEN [@ EXCEPT ![ci] = @ + 1] ELSE @]
          /\ red' = IF collects
                    THEN TaskReductionCollect(red, 1, GetThreadId(task, t))
                    ELSE red
          /\ redHist' = IF collects
                        THEN [redHist EXCEPT !.collected = @ + 1]
                        ELSE redHist
          /\ ctl' = [ctl EXCEPT ![t] = IF ri.isRunning THEN @ ELSE Goto(@, "end")]
    /\ UNCHANGED <<numThreads, prog, stepCounter_, stepCounterBarrier_, instance_,
                   aborted, notSTS>>

\* the function passed to run returns
FunctionReturn(t) ==
    /\ At(t, "function")
    /\ Top(ctl[t]).pc > Len(Script(t, Top(ctl[t])))
    /\ ctl' = [ctl EXCEPT ![t] = Pop(@)]
    /\ UNCHANGED <<numThreads, prog, stepCounter_, stepCounterBarrier_, instance_, sts,
                   red, redHist, aborted, notSTS>>

\* OMBarrier::markArrival
MarkArrival(task) == [task EXCEPT !.numThreadsRemaining = @ - 1]

\* Task::run after the functor has returned: functorEndBarrier_.markArrival();
\* a lambda runner whose lambda returned is finished and released
TaskRunEnd(t) ==
    /\ AtPc(t, "Task::run", "end")
    /\ LET fr == Top(ctl[t])
           o == sts[fr.this]
           st == SubTaskAt(o, t, fr.stid)
           inRunner == Len(ctl[t]) > 1 /\ ctl[t][Len(ctl[t]) - 1].k = "LambdaRunner"
       IN /\ sts' = [sts EXCEPT
                ![fr.this].tasks_[st.task_] = MarkArrival(@),
                ![fr.this].threadSubTasks_[t][fr.stid] =
                    [@ EXCEPT !.runInfo_ = IF fr.f.kind = "basic"
                                           THEN [@ EXCEPT !.currentIter = 1] ELSE @,
                              !.gRan = IF fr.stolen THEN @ ELSE TRUE,
                              !.gHolding = IF fr.stolen THEN FALSE ELSE @,
                              !.lr_ = IF inRunner THEN "null" ELSE @]]
          /\ ctl' = [ctl EXCEPT ![t] = IF inRunner THEN Pop(Pop(@)) ELSE Pop(@)]
    /\ UNCHANGED <<numThreads, prog, stepCounter_, stepCounterBarrier_, instance_,
                   red, redHist, aborted, notSTS>>

\* Mutant: a stolen range is not added to the end barrier.
AddThread_Nothing(task) == task

\* Task::addThread: OMBarrier::addThread
AddThread(task) == [task EXCEPT !.numThreadsRemaining = @ + 1]

\* Mutant: the split point is not counted from the current iteration.
StealHalf_NoOffset(ri) == (ri.endIter - ri.currentIter) \div 2

\* Task::stealWork: half = ri.currentIter + (ri.endIter - ri.currentIter)/2
StealHalf(ri) == ri.currentIter + ((ri.endIter - ri.currentIter) \div 2)

\* Task::stealWork(subtask) for subtask stid of thread t, under the
\* auto-balancing mutex: the subtask with the most iterations left, more
\* than one besides the running one, gives up the upper half of them
StealWork(o, t, stid) ==
    LET id == SubTaskAt(o, t, stid).task_
        task == o.tasks_[id]
        subs == task.subtasks_
        ri(k) == SubTaskAt(o, subs[k][1], subs[k][2]).runInfo_
        numIters(k) == ri(k).endIter - ri(k).currentIter - 1
        cands == {k \in DOMAIN subs : ri(k).isRunning /\ numIters(k) > 1}
        bestST == CHOOSE k \in cands : \A j \in cands :
                      \/ numIters(j) < numIters(k)
                      \/ (numIters(j) = numIters(k) /\ k <= j)
        half == StealHalf(ri(bestST))
    IN IF ~task.autoBalancing_ \/ cands = {}
       THEN [ok |-> FALSE, o |-> o]
       ELSE [ok |-> TRUE,
             o |-> [o EXCEPT
                      !.threadSubTasks_[subs[bestST][1]][subs[bestST][2]].runInfo_.endIter = half,
                      !.threadSubTasks_[t][stid].workingRange_ = Range(half, ri(bestST).endIter),
                      !.threadSubTasks_[t][stid].gHolding = TRUE,
                      !.tasks_[id] = AddThread(@)]]

\* SubTask::run after runImpl returned true: stealWork; on success the
\* stolen range is run next, else the subtask is done
StealWorkCall(t) ==
    /\ AtPc(t, "runSubTask", "steal")
    /\ LET fr == Top(ctl[t])
           res == StealWork(sts[fr.this], t, fr.stid)
       IN /\ sts' = [sts EXCEPT ![fr.this] =
                        [res.o EXCEPT !.threadSubTasks_[t][fr.stid].doingExtraWork_ = res.ok]]
          /\ ctl' = [ctl EXCEPT ![t] =
                SetTop(@, IF res.ok THEN [fr EXCEPT !.pc = "run"]
                          ELSE [fr EXCEPT !.pc = "targets", !.isDone = TRUE])]
    /\ UNCHANGED <<numThreads, prog, stepCounter_, stepCounterBarrier_, instance_,
                   red, redHist, aborted, notSTS>>

\* Mutant: no pause target is ever found.
FindPauseTarget_None(o, t, st) == [pauseTarget |-> -1, ret |-> FALSE]

\* STS::findPauseTarget(st): the first candidate that has reached its
\* checkpoint, is not done and is ready, else no target and whether a
\* candidate that is not done remains
FindPauseTarget(o, t, st) ==
    LET targets == {i \in o.nextSubTasks_[t][st] : i > st /\ i < GetNumSubTasks(o, t)}
        ok(i) == /\ SubTaskAt(o, t, i).checkPoint_ <= TaskOf(o, t, i).checkPoint_
                 /\ ~SubTaskAt(o, t, i).isDone_
                 /\ IsReady(TaskOf(o, t, i))
        found == {i \in targets : ok(i)}
    IN IF found # {}
       THEN [pauseTarget |-> Min(found), ret |-> TRUE]
       ELSE [pauseTarget |-> -1,
             ret |-> \E i \in targets : ~SubTaskAt(o, t, i).isDone_]

\* runSubTask after run() returned false: a pause target is searched for
\* and run if there is one
AfterPause(t) ==
    /\ AtPc(t, "runSubTask", "post")
    /\ LET fr == Top(ctl[t])
           fpt == FindPauseTarget(sts[fr.this], t, fr.stid)
       IN IF ~fr.targetsRemain
          THEN /\ ctl' = [ctl EXCEPT ![t] = Goto(@, "cpchk")]
               /\ UNCHANGED sts
          ELSE IF fpt.pauseTarget > -1
          THEN /\ sts' = [sts EXCEPT ![fr.this] = CallRunSubTask(@, t, fpt.pauseTarget)]
               /\ ctl' = [ctl EXCEPT ![t] =
                     Append(SetTop(@, [fr EXCEPT !.pc = "cpchk", !.targetsRemain = fpt.ret]),
                            FrRST(fr.this, fpt.pauseTarget))]
          ELSE /\ ctl' = [ctl EXCEPT ![t] =
                     SetTop(@, [fr EXCEPT !.pc = "cpchk", !.targetsRemain = fpt.ret])]
               /\ UNCHANGED sts
    /\ UNCHANGED <<numThreads, prog, stepCounter_, stepCounterBarrier_, instance_,
                   red, redHist, aborted, notSTS>>

\* the end of runSubTask: cstack.pop() and st->setDone(isDone)
ReturnFromSubTask(o, t, stid, isDone) ==
    [o EXCEPT !.threadCallStacks_[t] = Pop(@),
              !.threadSubTasks_[t][stid].isDone_ = isDone]

\* runSubTask, the test of the do-while loop for a subtask that paused:
\* it is run again when its Task has reached its checkpoint, else
\* runSubTask returns
CheckPointTest(t) ==
    /\ AtPc(t, "runSubTask", "cpchk")
    /\ LET fr == Top(ctl[t])
           o == sts[fr.this]
           hasReachedCP == SubTaskAt(o, t, fr.stid).checkPoint_
                             <= TaskOf(o, t, fr.stid).checkPoint_
       IN IF hasReachedCP
          THEN /\ ctl' = [ctl EXCEPT ![t] = Goto(@, "run")]
               /\ UNCHANGED sts
          ELSE /\ sts' = [sts EXCEPT ![fr.this] = ReturnFromSubTask(@, t, fr.stid, FALSE)]
               /\ ctl' = [ctl EXCEPT ![t] = Pop(@)]
    /\ UNCHANGED <<numThreads, prog, stepCounter_, stepCounterBarrier_, instance_,
                   red, redHist, aborted, notSTS>>

\* runSubTask for a subtask that is done: the remaining pause targets are
\* run as they get ready, then runSubTask returns
RunTargets(t) ==
    /\ AtPc(t, "runSubTask", "targets")
    /\ LET fr == Top(ctl[t])
           o == sts[fr.this]
           fpt == FindPauseTarget(o, t, fr.stid)
       IN IF fpt.ret
          THEN /\ fpt.pauseTarget > -1
               /\ sts' = [sts EXCEPT ![fr.this] = CallRunSubTask(@, t, fpt.pauseTarget)]
               /\ ctl' = [ctl EXCEPT ![t] = Append(@, FrRST(fr.this, fpt.pauseTarget))]
          ELSE /\ sts' = [sts EXCEPT ![fr.this] = ReturnFromSubTask(@, t, fr.stid, TRUE)]
               /\ ctl' = [ctl EXCEPT ![t] = Pop(@)]
    /\ UNCHANGED <<numThreads, prog, stepCounter_, stepCounterBarrier_, instance_,
                   red, redHist, aborted, notSTS>>

\* ---- loops ----
\* STS::createTaskReduction(taskName, init)
CreateTaskReduction(t) ==
    /\ OpAt(t, "createTaskReduction")
    /\ LET o == sts[UserSTS]
       IN red' = TaskReductionNew(CurOp(t).init,
                                  GetNumThreads(o.tasks_[GetTaskId(o, CurOp(t).label)]))
    /\ redHist' = [init |-> CurOp(t).init, collected |-> 0, reduced |-> FALSE]
    /\ ctl' = [ctl EXCEPT ![t] = Adv(@)]
    /\ UNCHANGED <<numThreads, prog, stepCounter_, stepCounterBarrier_, instance_, sts,
                   aborted, notSTS>>

\* parallel_for: task->setReduction(red), task->setFunctor(loop functor)
PublishLoop(task, l, n, r, s) ==
    SetFunctorImpl([task EXCEPT !.reduction_ = r, !.gExec = [i \in 0..(n-1) |-> 0]],
                   LoopTaskFunctor(l, Range(0, n), s))

\* STS::parallel_for(label, 0, end, body, red) on an active schedule: the
\* loop is run by the caller when the label is not assigned, else the loop
\* functor is published
ParallelFor(t) ==
    /\ OpAt(t, "parallel_for")
    /\ LET o == sts[UserSTS]
           op == CurOp(t)
           id == GetTaskId(o, op.label)
       IN IF instance_ # UserSTS \/ ~sts[instance_].isActive_
          THEN /\ aborted' = TRUE
               /\ UNCHANGED <<sts, ctl>>
          ELSE IF ~IsTaskAssigned(o, op.label)
          THEN \* assert(red == nullptr)
               /\ aborted' = op.red
               /\ ctl' = [ctl EXCEPT ![t] =
                     IF op.red THEN @ ELSE Append(Adv(@), FrInline(op.end))]
               /\ UNCHANGED sts
          ELSE /\ sts' = [sts EXCEPT ![UserSTS].tasks_[id] =
                              PublishLoop(@, op.label, op.end, op.red, stepCounter_)]
               /\ ctl' = [ctl EXCEPT ![t] =
                     Adv(@) \o << FrPF(UserSTS, id, op.red, op.end, "nested"), FrMSC(UserSTS) >>]
               /\ aborted' \in ResetOutcomes(o, id)
    /\ UNCHANGED <<numThreads, prog, stepCounter_, stepCounterBarrier_, instance_,
                   red, redHist, notSTS>>

\* one pass of for (int i=start; i<end; i++) body(i); gBody is the
\* sequence of the arguments body has been called with
InlineBody_SkipOne(fr) == [fr EXCEPT !.i = @ + 2, !.gBody = Append(@, fr.i)]

InlineBody(fr) == [fr EXCEPT !.i = @ + 1, !.gBody = Append(@, fr.i)]

\* parallel_for on a label that is not assigned: body(i) on the caller
InlineIter(t) ==
    /\ At(t, "inline")
    /\ Top(ctl[t]).i < Top(ctl[t]).end
    /\ ctl' = [ctl EXCEPT ![t] = SetTop(@, InlineBody(Top(@)))]
    /\ UNCHANGED <<numThreads, prog, stepCounter_, stepCounterBarrier_, instance_, sts,
                   red, redHist, aborted, notSTS>>

\* parallel_for on a label that is not assigned: return after the loop
InlineReturn(t) ==
    /\ At(t, "inline")
    /\ Top(ctl[t]).i >= Top(ctl[t]).end
    /\ ctl' = [ctl EXCEPT ![t] = Pop(@)]
    /\ UNCHANGED <<numThreads, prog, stepCounter_, stepCounterBarrier_, instance_, sts,
                   red, redHist, aborted, notSTS>>

\* STS::waitForTask(label): returns at once on a default schedule and for
\* a label that is not assigned, else calls tasks_[t]->wait()
WaitForTask(t) ==
    /\ OpAt(t, "waitForTask")
    /\ LET op == CurOp(t)
           o == sts[op.this]
       IN ctl' = [ctl EXCEPT ![t] =
             IF o.bUseDefaultSchedule_ \/ ~IsTaskAssigned(o, op.label)
             THEN Adv(@)
             ELSE Append(Adv(@), FrWFT(op.this, GetTaskId(o, op.label)))]
    /\ UNCHANGED <<numThreads, prog, stepCounter_, stepCounterBarrier_, instance_, sts,
                   red, redHist, aborted, notSTS>>

\* waitForTask: tasks_[t]->wait() returns
WaitForTaskReturn(t) ==
    /\ At(t, "waitForTask")
    /\ EndBarrierPassed(sts[Top(ctl[t]).this].tasks_[Top(ctl[t]).task])
    /\ ctl' = [ctl EXCEPT ![t] = Pop(@)]
    /\ UNCHANGED <<numThreads, prog, stepCounter_, stepCounterBarrier_, instance_, sts,
                   red, redHist, aborted, notSTS>>

\* STS::parallel_for(label, 0, end, body) on the default schedule: the
\* loop is a step of its own, begun by nextStepInternal
DefaultFor(t) ==
    /\ OpAt(t, "defaultFor")
    /\ IF sts[instance_].isActive_ \/ ~IsTaskAssigned(sts["default"], "default")
       THEN /\ aborted' = TRUE
            /\ UNCHANGED ctl
       ELSE /\ ctl' = [ctl EXCEPT ![t] =
                  Adv(@) \o << FrPF("default", GetTaskId(sts["default"], "default"),
                                    FALSE, CurOp(t).end, "publish"),
                               FrNSI("default") >>]
            /\ UNCHANGED aborted
    /\ UNCHANGED <<numThreads, prog, stepCounter_, stepCounterBarrier_, instance_, sts,
                   red, redHist, notSTS>>

\* parallel_for on the default schedule after nextStepInternal: the loop
\* functor is published
DefaultForPublish(t) ==
    /\ AtPc(t, "parallel_for", "publish")
    /\ LET fr == Top(ctl[t])
       IN /\ sts' = [sts EXCEPT ![fr.this].tasks_[fr.task] =
                        PublishLoop(@, "default", fr.end, FALSE, stepCounter_)]
          /\ ctl' = [ctl EXCEPT ![t] = Append(Goto(@, "nested"), FrMSC(fr.this))]
    /\ UNCHANGED <<numThreads, prog, stepCounter_, stepCounterBarrier_, instance_,
                   red, redHist, aborted, notSTS>>

\* parallel_for: runNestedLoop(task) is called; it starts after the
\* subtask on top of the caller's call stack
ParallelForNested(t) ==
    /\ AtPc(t, "parallel_for", "nested")
    /\ LET fr == Top(ctl[t])
           cur == GetCurrentSubTaskId(sts[fr.this], t)
       IN ctl' = [ctl EXCEPT ![t] =
                     Append(Goto(@, "reduce"), FrRNL(fr.this, fr.task, cur + 1))]
    /\ UNCHANGED <<numThreads, prog, stepCounter_, stepCounterBarrier_, instance_, sts,
                   red, redHist, aborted, notSTS>>

\* STS::runNestedLoop: the caller's next subtasks that are not done are
\* run up to and including the one of the loop task
RunNestedLoop(t) ==
    /\ AtPc(t, "runNestedLoop", "scan")
    /\ LET fr == Top(ctl[t])
           o == sts[fr.this]
           nd == NotDoneFrom(o, t, fr.stid)
           stid == NextInQueue(nd)
           isLoop == SubTaskAt(o, t, stid).task_ = fr.task
       IN IF nd = {} \/ (~isLoop /\ ~IsReady(TaskOf(o, t, stid)))
          THEN \* assert(false), assert(subtask->getTask()->isReady())
               /\ aborted' = TRUE
               /\ UNCHANGED <<sts, ctl>>
          ELSE /\ sts' = [sts EXCEPT ![fr.this] = CallRunSubTask(@, t, stid)]
               /\ ctl' = [ctl EXCEPT ![t] =
                     Append(SetTop(@, IF isLoop THEN [fr EXCEPT !.pc = "wait"]
                                      ELSE [fr EXCEPT !.stid = stid + 1]),
                            FrRST(fr.this, stid))]
               /\ UNCHANGED aborted
    /\ UNCHANGED <<numThreads, prog, stepCounter_, stepCounterBarrier_, instance_,
                   red, redHist, notSTS>>

\* runNestedLoop: task->wait() after the caller's own part of the loop
RunNestedLoopWait(t) ==
    /\ AtPc(t, "runNestedLoop", "wait")
    /\ EndBarrierPassed(sts[Top(ctl[t]).this].tasks_[Top(ctl[t]).task])
    /\ ctl' = [ctl EXCEPT ![t] = Pop(@)]
    /\ UNCHANGED <<numThreads, prog, stepCounter_, stepCounterBarrier_, instance_, sts,
                   red, redHist, aborted, notSTS>>

\* parallel_for after runNestedLoop: red->reduce() when a reduction was
\* passed
ParallelForReduce(t) ==
    /\ AtPc(t, "parallel_for", "reduce")
    /\ LET fr == Top(ctl[t])
       IN /\ red' = IF fr.red THEN TaskReductionReduce(red) ELSE red
          /\ redHist' = IF fr.red THEN [redHist EXCEPT !.reduced = TRUE] ELSE redHist
          /\ ctl' = [ctl EXCEPT ![t] =
                Goto(@, IF sts[fr.this].bUseDefaultSchedule_ THEN "wait" ELSE "ret")]
    /\ UNCHANGED <<numThreads, prog, stepCounter_, stepCounterBarrier_, instance_, sts,
                   aborted, notSTS>>

\* parallel_for on the default schedule: waitInternal ends the step
ParallelForWait(t) ==
    /\ AtPc(t, "parallel_for", "wait")
    /\ ctl' = [ctl EXCEPT ![t] = EnterWaitInternal(Goto(@, "ret"), Top(@).this)]
    /\ UNCHANGED <<numThreads, prog, stepCounter_, stepCounterBarrier_, instance_, sts,
                   red, redHist, aborted, notSTS>>

\* parallel_for returns to its caller
ParallelForReturn(t) ==
    /\ AtPc(t, "parallel_for", "ret")
    /\ ctl' = [ctl EXCEPT ![t] = Pop(@)]
    /\ UNCHANGED <<numThreads, prog, stepCounter_, stepCounterBarrier_, instance_, sts,
                   red, redHist, aborted, notSTS>>

\* ---- coroutines ----
\* STS::pause(cp): returns false at once when cp is 0 and the thread's
\* systemProgressed_ counter is 0, else the counter is loaded
Pause(t) ==
    /\ OpAt(t, "pause")
    /\ LET sp == sts[UserSTS].systemProgressed_[t]
       IN ctl' = [ctl EXCEPT ![t] =
                     IF CurOp(t).cp = 0 /\ sp = 0 THEN PauseReturns(Adv(@), FALSE)
                     ELSE Append(Adv(@), FrPause(CurOp(t).cp, sp))]
    /\ UNCHANGED <<numThreads, prog, stepCounter_, stepCounterBarrier_, instance_, sts,
                   red, redHist, aborted, notSTS>>

\* the index of the innermost lambda runner on a control stack
RunnerBase(s) == CHOOSE j \in DOMAIN s :
                    s[j].k = "LambdaRunner" /\ \A i \in DOMAIN s : s[i].k = "LambdaRunner" => i <= j

\* the subtasks of thread t whose task is a successor of the task of
\* subtask st and that can run: not done, functor published, checkpoint of
\* the subtask reached
RunnableSuccessors(o, t, st) ==
    {s \in 0..(GetNumSubTasks(o, t) - 1) :
        /\ s # st
        /\ TaskOf(o, t, s).label \in TaskOf(o, t, st).nextTasks_
        /\ ~SubTaskAt(o, t, s).isDone_
        /\ IsReady(TaskOf(o, t, s))
        /\ SubTaskAt(o, t, s).checkPoint_ <= TaskOf(o, t, s).checkPoint_}

\* Mutant: a subtask pauses only for a pause target.
ShouldPause_TargetOnly(coroutine, pauseTarget, cpReached) == coroutine /\ pauseTarget > -1

\* STS::pause(cp), the tests after the store of the counter: the subtask
\* is a coroutine on this thread, and a pause target was found or the
\* Task has not reached cp
ShouldPause(coroutine, pauseTarget, cpReached) ==
    coroutine /\ (pauseTarget > -1 \/ ~cpReached)

\* STS::pause(cp) from the store of the counter on: a coroutine subtask is
\* paused when a pause target exists or its Task has not reached cp; the
\* runner keeps the calls of the lambda, run() of the subtask returns false
PauseStore(t) ==
    /\ At(t, "pause")
    /\ LET fr == Top(ctl[t])
           o == [sts[UserSTS] EXCEPT !.systemProgressed_[t] =
                     IF fr.v - 1 > 0 THEN fr.v - 1 ELSE 0]
           st == GetCurrentSubTaskId(o, t)
           task == TaskOf(o, t, st)
           fpt == FindPauseTarget(o, t, st)
           cpReached == fr.cp <= task.checkPoint_
           paused == ShouldPause(IsCoroutine(task, t), fpt.pauseTarget, cpReached)
           s == PauseReturns(Pop(ctl[t]), paused)
           base == RunnerBase(s)
       IN IF st = -1
          THEN /\ aborted' = TRUE
               /\ UNCHANGED <<sts, ctl>>
          ELSE IF paused
          THEN /\ sts' = [sts EXCEPT ![UserSTS] =
                            [o EXCEPT !.threadSubTasks_[t][st] =
                                [@ EXCEPT !.checkPoint_ = fr.cp, !.lr_ = "paused",
                                          !.saved = SubSeq(s, base, Len(s)),
                                          !.gSucc = IF cpReached THEN {}
                                                    ELSE RunnableSuccessors(o, t, st)]]]
               /\ ctl' = [ctl EXCEPT ![t] = Goto(SubSeq(s, 1, base - 1), "post")]
               /\ UNCHANGED aborted
          ELSE /\ sts' = [sts EXCEPT ![UserSTS] = o]
               /\ ctl' = [ctl EXCEPT ![t] = s]
               /\ UNCHANGED aborted
    /\ UNCHANGED <<numThreads, prog, stepCounter_, stepCounterBarrier_, instance_,
                   red, redHist, notSTS>>

\* STS::setCheckPoint(cp): the checkpoint of the Task of the current subtask
SetCheckPoint(t) ==
    /\ OpAt(t, "setCheckPoint")
    /\ LET o == sts[UserSTS]
           st == GetCurrentSubTaskId(o, t)
       IN IF st = -1
          THEN /\ aborted' = TRUE
               /\ UNCHANGED <<sts, ctl>>
          ELSE /\ sts' = [sts EXCEPT ![UserSTS].tasks_[SubTaskAt(o, t, st).task_].checkPoint_ =
                              CurOp(t).cp]
               /\ ctl' = [ctl EXCEPT ![t] = Append(Adv(@), FrMSC(UserSTS))]
               /\ UNCHANGED aborted
    /\ UNCHANGED <<numThreads, prog, stepCounter_, stepCounterBarrier_, instance_,
                   red, redHist, notSTS>>

-----------------------------------------------------------------------------
(***************************************************************************)
(* LambdaRunner: a thread that runs a callable and can be left and         *)
(* re-entered (sts/lambdaRunner.h), driven as SubTask::runImpl drives it:  *)
(* run or cont, then wait, then isFinished.                                *)
(***************************************************************************)

\* number of callables the outside caller passes to run
MaxRuns == 2
\* largest number of pause calls of a callable
MaxPauses == 2
\* largest number of spurious wake-ups of cv_.wait
MaxSpurious == 1

\* the two threads that use the mutex and the condition variable
LRThreads == {"runner", "caller"}

\* no LambdaRunner exists
LRIdle ==
    /\ isRunning_ = FALSE
    /\ finished_ = TRUE
    /\ doHalt_ = TRUE
    /\ lambda_ = 0
    /\ mut_ = "free"
    /\ cv_ = [waiting |-> {}, notified |-> {}, spurious |-> 0]
    /\ lrRunner = [pc |-> "exit", ret |-> "check", left |-> 0]
    /\ lrCaller = [pc |-> "end", ret |-> "wLock", runs |-> 0]
    /\ lrLam = "none"
    /\ lrAborted = FALSE

\* LambdaRunner::LambdaRunner up to the caller's wait(): the members as
\* initialised, the thread created
LRInit ==
    /\ isRunning_ = TRUE
    /\ finished_ = TRUE
    /\ doHalt_ = FALSE
    /\ lambda_ = 0
    /\ mut_ = "free"
    /\ cv_ = [waiting |-> {}, notified |-> {}, spurious |-> 0]
    /\ lrRunner = [pc |-> "start", ret |-> "check", left |-> 0]
    /\ lrCaller = [pc |-> "wLock", ret |-> "wLock", runs |-> 0]
    /\ lrLam = "none"
    /\ lrAborted = FALSE

\* the record of thread w
LRRec(w) == IF w = "runner" THEN lrRunner ELSE lrCaller
\* the pc of thread w inside cv_.wait(lk)
LRWaitPc(w) == IF w = "runner" THEN "pWait" ELSE "wWait"
\* the pc of thread w at the test of its while loop around cv_.wait(lk)
LRTestPc(w) == IF w = "runner" THEN "pTest" ELSE "wTest"

\* std::unique_lock<std::mutex> lk(mut_) by thread w
LRLock(w, pc, next) ==
    /\ ~lrAborted
    /\ LRRec(w).pc = pc
    /\ mut_ = "free"
    /\ mut_' = w
    /\ lrRunner' = IF w = "runner" THEN [lrRunner EXCEPT !.pc = next] ELSE lrRunner
    /\ lrCaller' = IF w = "caller" THEN [lrCaller EXCEPT !.pc = next] ELSE lrCaller
    /\ UNCHANGED <<isRunning_, finished_, doHalt_, lambda_, cv_, lrLam, lrAborted, notLR>>

\* cv_.notify_all(): the threads inside cv_.wait are notified
NotifyAll(cv) == [cv EXCEPT !.notified = @ \cup cv.waiting]

\* cv_.wait(lk), the entry: the mutex is released and the thread waits
CvWait(cv, w) == [cv EXCEPT !.waiting = @ \cup {w}]

\* cv_.wait(lk), the return: the thread holds the mutex again
CvWoken(cv, w) == [cv EXCEPT !.waiting = @ \ {w}, !.notified = @ \ {w}]

\* the thread body: instance = this
LRThreadStart ==
    /\ ~lrAborted /\ lrRunner.pc = "start"
    /\ lrRunner' = [lrRunner EXCEPT !.pc = "loop"]
    /\ UNCHANGED <<isRunning_, finished_, doHalt_, lambda_, mut_, cv_, lrCaller, lrLam,
                   lrAborted, notLR>>

\* the thread body: while (!doHalt_) pause()
LRLoopTest ==
    /\ ~lrAborted /\ lrRunner.pc = "loop"
    /\ lrRunner' = IF doHalt_ THEN [lrRunner EXCEPT !.pc = "exit"]
                   ELSE [lrRunner EXCEPT !.pc = "pLock", !.ret = "check"]
    /\ UNCHANGED <<isRunning_, finished_, doHalt_, lambda_, mut_, cv_, lrCaller, lrLam,
                   lrAborted, notLR>>

\* pause(): the lock
LRPauseLock == LRLock("runner", "pLock", "pSet")

\* pause(): isRunning_ = false; cv_.notify_all()
LRPauseSet ==
    /\ ~lrAborted /\ lrRunner.pc = "pSet"
    /\ isRunning_' = FALSE
    /\ cv_' = NotifyAll(cv_)
    /\ lrRunner' = [lrRunner EXCEPT !.pc = "pTest"]
    /\ UNCHANGED <<finished_, doHalt_, lambda_, mut_, lrCaller, lrLam, lrAborted, notLR>>

\* pause(): while (!isRunning_)
PauseWaits(running) == ~running

\* pause(): the test of the loop; cv_.wait(lk), or the return to the
\* thread body or to the callable
LRPauseTest ==
    /\ ~lrAborted /\ lrRunner.pc = "pTest"
    /\ mut_' = "free"
    /\ IF PauseWaits(isRunning_)
       THEN /\ cv_' = CvWait(cv_, "runner")
            /\ lrRunner' = [lrRunner EXCEPT !.pc = "pWait"]
            /\ UNCHANGED lrLam
       ELSE /\ lrRunner' = [lrRunner EXCEPT !.pc = lrRunner.ret]
            /\ lrLam' = IF lrRunner.ret = "lam" THEN "running" ELSE lrLam
            /\ UNCHANGED cv_
    /\ UNCHANGED <<isRunning_, finished_, doHalt_, lambda_, lrCaller, lrAborted, notLR>>

\* cv_.wait(lk) of thread w returns after a notify_all
LRWake(w) ==
    /\ ~lrAborted
    /\ LRRec(w).pc = LRWaitPc(w)
    /\ w \in cv_.notified
    /\ mut_ = "free"
    /\ mut_' = w
    /\ cv_' = CvWoken(cv_, w)
    /\ lrRunner' = IF w = "runner" THEN [lrRunner EXCEPT !.pc = LRTestPc(w)] ELSE lrRunner
    /\ lrCaller' = IF w = "caller" THEN [lrCaller EXCEPT !.pc = LRTestPc(w)] ELSE lrCaller
    /\ UNCHANGED <<isRunning_, finished_, doHalt_, lambda_, lrLam, lrAborted, notLR>>

\* cv_.wait(lk) of thread w returns without a notify_all
LRSpurious(w) ==
    /\ ~lrAborted
    /\ LRRec(w).pc = LRWaitPc(w)
    /\ w \notin cv_.notified
    /\ cv_.spurious < MaxSpurious
    /\ mut_ = "free"
    /\ mut_' = w
    /\ cv_' = [CvWoken(cv_, w) EXCEPT !.spurious = @ + 1]
    /\ lrRunner' = IF w = "runner" THEN [lrRunner EXCEPT !.pc = LRTestPc(w)] ELSE lrRunner
    /\ lrCaller' = IF w = "caller" THEN [lrCaller EXCEPT !.pc = LRTestPc(w)] ELSE lrCaller
    /\ UNCHANGED <<isRunning_, finished_, doHalt_, lambda_, lrLam, lrAborted, notLR>>

\* the thread body after pause(): if (!finished_) lambda_()
LRCheck ==
    /\ ~lrAborted /\ lrRunner.pc = "check"
    /\ IF ~finished_
       THEN /\ lrRunner' = [lrRunner EXCEPT !.pc = "lam", !.left = lambda_]
            /\ lrLam' = "running"
       ELSE /\ lrRunner' = [lrRunner EXCEPT !.pc = "fin"]
            /\ UNCHANGED lrLam
    /\ UNCHANGED <<isRunning_, finished_, doHalt_, lambda_, mut_, cv_, lrCaller,
                   lrAborted, notLR>>

\* the callable: its next call of pause(), or its return
LRLambdaStep ==
    /\ ~lrAborted /\ lrRunner.pc = "lam"
    /\ IF lrRunner.left > 0
       THEN /\ lrRunner' = [lrRunner EXCEPT !.pc = "pLock", !.ret = "lam", !.left = @ - 1]
            /\ lrLam' = "paused"
       ELSE /\ lrRunner' = [lrRunner EXCEPT !.pc = "fin"]
            /\ lrLam' = "returned"
    /\ UNCHANGED <<isRunning_, finished_, doHalt_, lambda_, mut_, cv_, lrCaller,
                   lrAborted, notLR>>

\* the thread body: finished_ = true
LRFinish ==
    /\ ~lrAborted /\ lrRunner.pc = "fin"
    /\ finished_' = TRUE
    /\ lrRunner' = [lrRunner EXCEPT !.pc = "loop"]
    /\ UNCHANGED <<isRunning_, doHalt_, lambda_, mut_, cv_, lrCaller, lrLam, lrAborted, notLR>>

\* wait(): the lock
LRWaitLock == LRLock("caller", "wLock", "wTest")

\* Mutant: wait returns without looking at isRunning_.
WaitWaits_Never(running) == FALSE

\* wait(): while (isRunning_)
WaitWaits(running) == running

\* wait(): the test of the loop; cv_.wait(lk), or the return
LRWaitTest ==
    /\ ~lrAborted /\ lrCaller.pc = "wTest"
    /\ mut_' = "free"
    /\ IF WaitWaits(isRunning_)
       THEN /\ cv_' = CvWait(cv_, "caller")
            /\ lrCaller' = [lrCaller EXCEPT !.pc = "wWait"]
       ELSE /\ lrCaller' = [lrCaller EXCEPT !.pc = "outside"]
            /\ UNCHANGED cv_
    /\ UNCHANGED <<isRunning_, finished_, doHalt_, lambda_, lrRunner, lrLam, lrAborted, notLR>>

\* SubTask::runImpl after wait(): isFinished(); a finished runner is given
\* the next callable or destroyed, a paused one is continued
LROutside ==
    /\ ~lrAborted /\ lrCaller.pc = "outside"
    /\ lrCaller' = IF ~finished_ THEN [lrCaller EXCEPT !.pc = "cLock", !.ret = "wLock"]
                   ELSE IF lrCaller.runs < MaxRuns THEN [lrCaller EXCEPT !.pc = "run"]
                   ELSE [lrCaller EXCEPT !.pc = "dtor"]
    /\ UNCHANGED <<isRunning_, finished_, doHalt_, lambda_, mut_, cv_, lrRunner, lrLam,
                   lrAborted, notLR>>

\* run(lambda): assert(finished_); lambda_ = lambda; finished_ = false;
\* cont(); the callable calls pause p times
LRRun(p) ==
    /\ ~lrAborted /\ lrCaller.pc = "run"
    /\ IF ~finished_
       THEN /\ lrAborted' = TRUE
            /\ UNCHANGED <<lambda_, finished_, lrCaller, lrLam>>
       ELSE /\ lambda_' = p
            /\ finished_' = FALSE
            /\ lrLam' = "new"
            /\ lrCaller' = [lrCaller EXCEPT !.pc = "cLock", !.ret = "wLock", !.runs = @ + 1]
            /\ UNCHANGED lrAborted
    /\ UNCHANGED <<isRunning_, doHalt_, mut_, cv_, lrRunner, notLR>>

\* cont(): the lock
LRContLock == LRLock("caller", "cLock", "cSet")

\* cont(): isRunning_ = true; lk.unlock()
LRContSet ==
    /\ ~lrAborted /\ lrCaller.pc = "cSet"
    /\ isRunning_' = TRUE
    /\ mut_' = "free"
    /\ lrCaller' = [lrCaller EXCEPT !.pc = "cNotify"]
    /\ UNCHANGED <<finished_, doHalt_, lambda_, cv_, lrRunner, lrLam, lrAborted, notLR>>

\* cont(): cv_.notify_all()
LRContNotify ==
    /\ ~lrAborted /\ lrCaller.pc = "cNotify"
    /\ cv_' = NotifyAll(cv_)
    /\ lrCaller' = [lrCaller EXCEPT !.pc = lrCaller.ret]
    /\ UNCHANGED <<isRunning_, finished_, doHalt_, lambda_, mut_, lrRunner, lrLam,
                   lrAborted, notLR>>

\* ~LambdaRunner: assert(finished_); doHalt_ = true; cont()
LRDtor ==
    /\ ~lrAborted /\ lrCaller.pc = "dtor"
    /\ lrAborted' = ~finished_
    /\ doHalt_' = finished_
    /\ lrCaller' = IF finished_ THEN [lrCaller EXCEPT !.pc = "cLock", !.ret = "join"]
                   ELSE lrCaller
    /\ UNCHANGED <<isRunning_, finished_, lambda_, mut_, cv_, lrRunner, lrLam, notLR>>

\* ~LambdaRunner: thread_->join()
LRJoin ==
    /\ ~lrAborted /\ lrCaller.pc = "join"
    /\ lrRunner.pc = "exit"
    /\ lrCaller' = [lrCaller EXCEPT !.pc = "end"]
    /\ UNCHANGED <<isRunning_, finished_, doHalt_, lambda_, mut_, cv_, lrRunner, lrLam,
                   lrAborted, notLR>>

-----------------------------------------------------------------------------
(***************************************************************************)
(* The roll call of ex8.cpp: thread 0 opens the RMO barrier rmob, waits on *)
(* the OM barrier omb and closes it again; every other thread waits on     *)
(* rmob and marks its arrival at omb; nthreads-1 rounds.  The variables of *)
(* rmob are those of the RMOBarrier above, made by RMOBarrier(nthreads-1). *)
(***************************************************************************)

\* const int nthreads of ex8.cpp
rollCallThreads == 4

RCThreads == 0..(rollCallThreads - 1)
RCWorkers == 1..(rollCallThreads - 1)

RCIdle ==
    /\ omb = 0
    /\ rcPc = [t \in RCThreads |-> "done"]
    /\ tidCalled = [t \in RCThreads |-> 1]
    /\ rcOut = <<>>

\* main before nextStep: new RMOBarrier, new OMBarrier, omb->close(nthreads-1);
\* every thread at the start of roll_call
RCInit ==
    /\ locksOpened_ = 0
    /\ lockNum_ = [t \in RCThreads |-> 0]
    /\ rmoPc = [t \in RMOWaiters |-> "out"]
    /\ rmoReturned = [t \in RMOWaiters |-> 0]
    /\ omb = rollCallThreads - 1
    /\ rcPc = [t \in RCThreads |-> IF t = 0 THEN "print" ELSE "call"]
    /\ tidCalled = [t \in RCThreads |-> 1]
    /\ rcOut = <<>>

\* Mutant: the wait on the OM barrier returns with one thread remaining.
OMBarrierPassed_Early(remaining) == remaining <= 1

\* OMBarrier::wait: wait_until(numThreadsRemaining, 0)
OMBarrierPassed(remaining) == remaining = 0

\* the end of a pass of the loop of roll_call: tidCalled++ and the test
RCLoop(t, pc) ==
    /\ tidCalled' = [tidCalled EXCEPT ![t] = @ + 1]
    /\ rcPc' = [rcPc EXCEPT ![t] = IF tidCalled[t] + 1 < rollCallThreads THEN pc ELSE "done"]

\* thread 0: printf("Calling %d: ", tidCalled)
RCPrint ==
    /\ rcPc[0] = "print"
    /\ rcOut' = Append(rcOut, <<"Calling", tidCalled[0]>>)
    /\ rcPc' = [rcPc EXCEPT ![0] = "open"]
    /\ UNCHANGED <<locksOpened_, lockNum_, rmoPc, rmoReturned, omb, tidCalled, notRC>>

\* thread 0: rmob->open()
RCOpen ==
    /\ rcPc[0] = "open"
    /\ locksOpened_' = locksOpened_ + 1
    /\ rcPc' = [rcPc EXCEPT ![0] = "ombWait"]
    /\ UNCHANGED <<lockNum_, rmoPc, rmoReturned, omb, tidCalled, rcOut, notRC>>

\* thread 0: omb->wait() returns
RCOmbWait ==
    /\ rcPc[0] = "ombWait"
    /\ OMBarrierPassed(omb)
    /\ rcPc' = [rcPc EXCEPT ![0] = "close"]
    /\ UNCHANGED <<locksOpened_, lockNum_, rmoPc, rmoReturned, omb, tidCalled, rcOut, notRC>>

\* thread 0: omb->close(nthreads-1), the end of the pass
RCOmbClose ==
    /\ rcPc[0] = "close"
    /\ omb' = rollCallThreads - 1
    /\ RCLoop(0, "print")
    /\ UNCHANGED <<locksOpened_, lockNum_, rmoPc, rmoReturned, rcOut, notRC>>

\* a worker: rmob->wait(tid), first statement
RCWaitCall(w) ==
    /\ rcPc[w] = "call"
    /\ lockNum_' = RMOBump(lockNum_, w)
    /\ rcPc' = [rcPc EXCEPT ![w] = "spin"]
    /\ UNCHANGED <<locksOpened_, rmoPc, rmoReturned, omb, tidCalled, rcOut, notRC>>

\* a worker: rmob->wait(tid), the spin loop ends
RCWaitReturn(w) ==
    /\ rcPc[w] = "spin"
    /\ RMOPassed(locksOpened_, lockNum_[w])
    /\ rcPc' = [rcPc EXCEPT ![w] = "here"]
    /\ UNCHANGED <<locksOpened_, lockNum_, rmoPc, rmoReturned, omb, tidCalled, rcOut, notRC>>

\* a worker: if (tidCalled==tid) printf("here!")
RCHere(w) ==
    /\ rcPc[w] = "here"
    /\ rcOut' = IF tidCalled[w] = w THEN Append(rcOut, <<"here", w>>) ELSE rcOut
    /\ rcPc' = [rcPc EXCEPT ![w] = "mark"]
    /\ UNCHANGED <<locksOpened_, lockNum_, rmoPc, rmoReturned, omb, tidCalled, notRC>>

\* a worker: omb->markArrival(), the end of the pass
RCMarkArrival(w) ==
    /\ rcPc[w] = "mark"
    /\ omb' = omb - 1
    /\ RCLoop(w, "call")
    /\ UNCHANGED <<locksOpened_, lockNum_, rmoPc, rmoReturned, rcOut, notRC>>

-----------------------------------------------------------------------------
(***************************************************************************)
(* Specifications of the barriers.                                         *)
(***************************************************************************)

InitMM == MMIdle /\ RMOIdle /\ RGIdle /\ TRIdle /\ STSIdle /\ LRIdle /\ RCIdle

NextMM == \E t \in MMThreads : MMEnter(t)

SpecMM == InitMM /\ [][NextMM]_vars

\* every thread keeps being scheduled
FairSpecMM == SpecMM /\ \A t \in MMThreads : WF_vars(MMEnter(t))

InitRMO == MMIdle /\ RMOIdle /\ RGIdle /\ TRIdle /\ STSIdle /\ LRIdle /\ RCIdle

NextRMO ==
    \/ RMOOpen
    \/ \E tid \in RMOWaiters : RMOWaitCall(tid)
    \/ \E tid \in RMOWaiters : RMOWaitReturn(tid)

SpecRMO == InitRMO /\ [][NextRMO]_vars

FairSpecRMO == SpecRMO /\ \A tid \in RMOWaiters : WF_vars(RMOWaitReturn(tid))

InitRC == MMIdle /\ RCInit /\ RGIdle /\ TRIdle /\ STSIdle /\ LRIdle

\* the steps of thread 0 in the roll call
RCMainStep ==
    \/ RCPrint
    \/ RCOpen
    \/ RCOmbWait
    \/ RCOmbClose

\* the steps of a worker in the roll call
RCWorkerStep(w) ==
    \/ RCWaitCall(w)
    \/ RCWaitReturn(w)
    \/ RCHere(w)
    \/ RCMarkArrival(w)

NextRC ==
    \/ RCPrint
    \/ RCOpen
    \/ RCOmbWait
    \/ RCOmbClose
    \/ \E w \in RCWorkers : RCWaitCall(w)
    \/ \E w \in RCWorkers : RCWaitReturn(w)
    \/ \E w \in RCWorkers : RCHere(w)
    \/ \E w \in RCWorkers : RCMarkArrival(w)

SpecRC == InitRC /\ [][NextRC]_vars

\* every thread keeps being scheduled
FairSpecRC == SpecRC /\ WF_vars(RCMainStep) /\ \A w \in RCWorkers : WF_vars(RCWorkerStep(w))

InitRange == MMIdle /\ RMOIdle /\ RGInit /\ TRIdle /\ STSIdle /\ LRIdle /\ RCIdle

NextRange ==
    \/ \E k \in 1..Len(rgParts) : RgLoopStart(k)
    \/ RgLoopIter

SpecRange == InitRange /\ [][NextRange]_vars

InitRed == MMIdle /\ RMOIdle /\ RGIdle /\ TRInit /\ STSIdle /\ LRIdle /\ RCIdle

NextRed ==
    \/ \E a \in RedValues : \E pos \in 0..(Len(trRed.values) - 1) : TRCollect(a, pos)
    \/ TRReduce

SpecRed == InitRed /\ [][NextRed]_vars

InitLR == MMIdle /\ RMOIdle /\ RGIdle /\ TRIdle /\ STSIdle /\ LRInit /\ RCIdle

\* the steps of the runner's thread, but for spurious wake-ups
LRRunnerStep ==
    \/ LRThreadStart
    \/ LRLoopTest
    \/ LRPauseLock
    \/ LRPauseSet
    \/ LRPauseTest
    \/ LRWake("runner")
    \/ LRCheck
    \/ LRLambdaStep
    \/ LRFinish

\* the steps of the outside caller, but for spurious wake-ups
LRCallerStep ==
    \/ LRWaitLock
    \/ LRWaitTest
    \/ LRWake("caller")
    \/ LROutside
    \/ \E p \in 0..MaxPauses : LRRun(p)
    \/ LRContLock
    \/ LRContSet
    \/ LRContNotify
    \/ LRDtor
    \/ LRJoin

NextLR ==
    \/ LRThreadStart
    \/ LRLoopTest
    \/ LRPauseLock
    \/ LRPauseSet
    \/ LRPauseTest
    \/ LRCheck
    \/ LRLambdaStep
    \/ LRFinish
    \/ LRWaitLock
    \/ LRWaitTest
    \/ LROutside
    \/ \E p \in 0..MaxPauses : LRRun(p)
    \/ LRContLock
    \/ LRContSet
    \/ LRContNotify
    \/ LRDtor
    \/ LRJoin
    \/ \E w \in LRThreads : LRWake(w)
    \/ \E w \in LRThreads : LRSpurious(w)

SpecLR == InitLR /\ [][NextLR]_vars

\* both threads keep being scheduled; no wake-up without a notify_all is
\* promised
FairSpecLR == SpecLR /\ WF_vars(LRRunnerStep) /\ WF_vars(LRCallerStep)

Init == MMIdle /\ RMOIdle /\ RGIdle /\ TRIdle /\ STSInit /\ LRIdle /\ RCIdle

\* the threads of the largest program
ThreadIds == 0..(MaxNumThreads - 1)

\* one step of thread t
Step(t) ==
    \/ SetHighPriorityCall(t)
    \/ Yield(t)
    \/ InlineIter(t)
    \/ InlineReturn(t)
    \/ WaitForTask(t)
    \/ WaitForTaskReturn(t)
    \/ ClearAssignmentsCall(t)
    \/ AssignCall(t)
    \/ SetCoroutineCall(t)
    \/ EnableTaskAutoBalancingCall(t)
    \/ NextStep(t)
    \/ NextStepInternalStart(t)
    \/ NextStepInternalPublish(t)
    \/ NextStepInternalEnd(t)
    \/ MarkStateChangeCall(t)
    \/ Run(t)
    \/ Wait(t)
    \/ WaitInternalTasks(t)
    \/ WaitInternalBarrier(t)
    \/ WaitInternalClose(t)
    \/ WaitInternalReturn(t)
    \/ Shutdown(t)
    \/ ShutdownJoin(t)
    \/ DoWorkArrive(t)
    \/ DoWorkPoll(t)
    \/ RunAllSubTasks(t)
    \/ WaitForCheckPoint(t)
    \/ RunImpl(t)
    \/ TaskRunBegin(t)
    \/ LoopIter(t)
    \/ FunctionReturn(t)
    \/ TaskRunEnd(t)
    \/ StealWorkCall(t)
    \/ AfterPause(t)
    \/ CheckPointTest(t)
    \/ RunTargets(t)
    \/ CreateTaskReduction(t)
    \/ ParallelFor(t)
    \/ DefaultRun(t)
    \/ Skip(t)
    \/ DefaultFor(t)
    \/ DefaultForPublish(t)
    \/ ParallelForNested(t)
    \/ RunNestedLoop(t)
    \/ RunNestedLoopWait(t)
    \/ ParallelForReduce(t)
    \/ ParallelForWait(t)
    \/ ParallelForReturn(t)
    \/ Pause(t)
    \/ PauseStore(t)
    \/ SetCheckPoint(t)

Next == \E t \in ThreadIds : Step(t)

Spec == Init /\ [][Next]_vars

\* every thread that can take a step eventually takes one
FairSpec == Spec /\ \A t \in ThreadIds : WF_vars(Step(t))


-----------------------------------------------------------------------------
(***************************************************************************)
(* Claims.                                                                 *)
(***************************************************************************)

\* threads that have counted their arrival of the current enter() call
MMArrived(t) == mmPc[t] \in {"waitWaiting", "addReleased", "resetWaiting", "resetReleased"}

\* C7 (safety part): no thread returns from its r-th enter() before all
\* threads called their r-th enter(), and the arrival of a thread's k-th
\* enter() is counted for round k, never for an earlier round.
C7_Safe ==
    /\ \A t, u \in MMThreads : mmReturned[t] <= mmEntered[u]
    /\ \A t \in MMThreads : MMArrived(t) => mmCounted[t] = mmEntered[t]
    /\ numWaitingThreads <= nthreads

\* C7: for an MMBarrier of size N entered by the same N threads in
\* successive rounds, no thread leaks past a round boundary (C7_Safe) and,
\* under fair scheduling, every enter() eventually returns.
C7_MMBarrierRounds ==
    /\ []C7_Safe
    /\ \A t \in MMThreads : \A r \in 1..MaxRounds :
          (mmEntered[t] = r) ~> (mmReturned[t] = r)

\* C7 witness: all threads returned from the second round
C7_Witness == \A t \in MMThreads : mmReturned[t] = MaxRounds /\ MaxRounds >= 2

\* C8 (safety part): the k-th wait(tid) returns only after k opens
C8_Safe == \A tid \in RMOWaiters : rmoReturned[tid] <= locksOpened_

\* C8 (independence part): a step of one waiter leaves the counter, the
\* position and the history of every other waiter unchanged
C8_Independent ==
    \A tid \in RMOWaiters :
        (lockNum_'[tid] # lockNum_[tid] \/ rmoPc'[tid] # rmoPc[tid]) =>
            \A u \in RMOWaiters \ {tid} :
                /\ lockNum_'[u] = lockNum_[u]
                /\ rmoPc'[u] = rmoPc[u]
                /\ rmoReturned'[u] = rmoReturned[u]

\* C8: the k-th call wait(tid) returns only after open() was called at
\* least k times, it does return once that many opens have happened (also
\* when the open came first), and waiters do not affect each other.
C8_RMOBarrierReuse ==
    /\ []C8_Safe
    /\ [][C8_Independent]_vars
    /\ \A tid \in RMOWaiters :
          (rmoPc[tid] = "spin" /\ locksOpened_ >= lockNum_[tid]) ~> (rmoPc[tid] = "out")

\* C8 witness: a second wait returned although both opens preceded it
C8_Witness ==
    /\ rmoReturned[0] = 2
    /\ rmoReturned[1] = 0
    /\ lockNum_[1] = 0
    /\ locksOpened_ = 2

\* the index range [start, end) of the parallel_for
RgInBounds(i) == range_.start <= i /\ i < range_.end

\* C2: the subtasks of a loop task whose ranges tile [0,1] execute together
\* exactly the iterations start..end-1: never an index outside the bounds,
\* never an index twice, every index once when all loops have returned; a
\* subtask whose integer span is empty executes no iteration.
C2_RangePartition ==
    /\ \A i \in DOMAIN rgCount :
          /\ rgCount[i] <= 1
          /\ ~RgInBounds(i) => rgCount[i] = 0
          /\ (rgDone = DOMAIN rgParts /\ RgInBounds(i)) => rgCount[i] = 1
    /\ \A k \in rgDone :
          LET s == Subset(range_, rgParts[k])
          IN /\ rgExec[k] = s.end - s.start
             /\ (s.end <= s.start) => rgExec[k] = 0

\* C2 witness: three parts, one of them with an empty integer span, have
\* all run over a non-empty index range
C2_Witness ==
    /\ Len(rgParts) = 3
    /\ rgDone = {1, 2, 3}
    /\ range_.end - range_.start = 4
    /\ \E k \in 1..3 : rgExec[k] = 0
    /\ \E k \in 1..3 : rgExec[k] = 3

\* C9 as claimed: after reduce, getResult() is init merged once with every
\* collected value
C9_ReductionResult ==
    trReduced = 1 => TaskReductionGetResult(trRed) = trInit + trCollected

\* ---- the scheduler ----
\* the subtasks of thread t in scheduler object o
SubTaskIds(o, t) == 0..(GetNumSubTasks(o, t) - 1)

\* every subtask of o is done and every end barrier of o has fired
StepFinished(o) ==
    /\ \A t \in DOMAIN o.threadSubTasks_ : \A s \in SubTaskIds(o, t) :
          SubTaskAt(o, t, s).isDone_
    /\ \A i \in DOMAIN o.tasks_ : o.tasks_[i].numThreadsRemaining = 0

\* wait() of the user's scheduler is about to return from waitInternal
WaitReturns == AtPc(0, "waitInternal", "ret") /\ Top(ctl[0]).this = UserSTS

\* C1: when wait() returns for a step of a non-default scheduler, every
\* subtask of every task of the scheduler is done and every task's end
\* barrier counter is 0, also with coroutines that pause with a checkpoint
\* and with auto-balancing.
C1_WaitFinishesStep == WaitReturns => StepFinished(sts[UserSTS])

\* the frames of Task::run in which the functor has been called
FunctorCalls == {fr \in UNION {{ctl[t][i] : i \in DOMAIN ctl[t]} : t \in DOMAIN ctl} :
                    fr.k = "Task::run" /\ fr.pc # "begin"}

\* C3: a thread in Task::run calls the functor only after the begin barrier
\* of the Task was opened in the current step: the functor it calls is not
\* the empty slot and was published in the current step, not an earlier one.
C3_FunctorOfCurrentStep ==
    \A fr \in FunctorCalls : fr.f # NoFunctor /\ fr.f.step = stepCounter_ /\ fr.at = stepCounter_

C3_Witness ==
    /\ stepCounter_ = NSteps
    /\ \E t \in DOMAIN ctl \ {0} : AtPc(t, "Task::run", "loop") /\ Top(ctl[t]).f.kind = "loop"

\* C4: parallel_for on an assigned loop task returns only when the end
\* barrier counter of the task is 0 and every iteration has run once, and,
\* with a reduction, after reduce() has merged the values of every iteration.
C4_ParallelForReturn ==
    \A t \in DOMAIN ctl : AtPc(t, "parallel_for", "ret") =>
        LET fr == Top(ctl[t])
            task == sts[fr.this].tasks_[fr.task]
        IN /\ task.numThreadsRemaining = 0
           /\ \A i \in DOMAIN task.gExec : task.gExec[i] = 1
           /\ fr.red => /\ redHist.reduced
                        /\ redHist.collected = fr.end
                        /\ red.result = redHist.init + SumSeq(red.values)
                        /\ SumSeq(red.values) = Len(red.values) * redHist.init + fr.end

C4_Witness ==
    \E t \in DOMAIN ctl : /\ AtPc(t, "parallel_for", "ret")
                          /\ Top(ctl[t]).red
                          /\ red.result = Ex3Loop
                          /\ Len(sts[UserSTS].tasks_[Top(ctl[t]).task].subtasks_) = 2

\* the subtasks of a task as the scheduler object holds them
SubTasksOf(o, task) == {SubTaskAt(o, task.subtasks_[k][1], task.subtasks_[k][2]) :
                           k \in DOMAIN task.subtasks_}

\* C5: in a step the end barrier counter of a Task is 0 only when every
\* subtask of the Task has run and no thread holds a range it stole through
\* stealWork and has not finished.
C5_EndBarrierCountsThieves ==
    \A inst \in Insts : \A i \in DOMAIN sts[inst].tasks_ :
        (sts[inst].isActive_ /\ sts[inst].tasks_[i].numThreadsRemaining <= 0) =>
            \A st \in SubTasksOf(sts[inst], sts[inst].tasks_[i]) : st.gRan /\ ~st.gHolding

C5_Witness ==
    \E i \in DOMAIN sts[UserSTS].tasks_ :
        /\ sts[UserSTS].isActive_
        /\ sts[UserSTS].tasks_[i].autoBalancing_
        /\ sts[UserSTS].tasks_[i].numThreadsRemaining = 0
        /\ \E st \in SubTasksOf(sts[UserSTS], sts[UserSTS].tasks_[i]) :
              st.doingExtraWork_ /\ st.workingRange_.start < st.workingRange_.end

\* subtask s of thread t belongs to a task that t does not run as a coroutine
NonCoroutine(o, t, s) == ~IsCoroutine(TaskOf(o, t, s), t)

\* the subtasks of thread t that are inside runSubTask
OnCallStack(o, t) == {o.threadCallStacks_[t][i] : i \in DOMAIN o.threadCallStacks_[t]}

Activates ==
    \E t \in DOMAIN ctl :
        /\ AtPc(t, "nextStepInternal", "publish") /\ ctl'[t] # ctl[t]
        /\ sts[Top(ctl[t]).this].isActive_ /\ instance_ = Top(ctl[t]).this

\* C10: the step counter starts at 0, grows by exactly one with every
\* published step and only then, never decreases while the scheduler works,
\* and is set to -1 once, by shutdown, after which it does not change.
C10_StepCounter ==
    /\ stepCounter_ = 0
    /\ [][/\ Activates => (stepCounter_ >= 0 /\ stepCounter_' = stepCounter_ + 1)
          /\ stepCounter_' # stepCounter_ =>
                \/ Activates
                \/ stepCounter_ >= 0 /\ stepCounter_' = 0 - 1 /\ OpAt(0, "shutdown")]_vars

C10_Witness ==
    /\ stepCounter_ = 0 - 1
    /\ prog = "ex3"
    /\ AtPc(1, "doWork", "done")
    /\ Top(ctl[1]).i = NSteps + 1

\* the scheduler instances that are active
ActiveInsts == {inst \in Insts : sts[inst].isActive_}

Workers == DOMAIN ctl \ {0}

\* worker t is in doWork and in nothing else
InDoWorkOnly(t) == Len(ctl[t]) = 1 /\ ctl[t][1].k = "doWork"

\* shutdown has returned: every join is over and the workers have ended
ShutdownReturned ==
    /\ Len(ctl[0]) = 1 /\ ctl[0][1].k = "main" /\ ctl[0][1].pc > Len(Program(prog))
    /\ \A w \in Workers : AtPc(w, "doWork", "done")

\* C12: once shutdown has stored the negative counter, with no schedule
\* active, no worker runs a subtask any more, whatever number of steps it
\* has processed: at its next poll it leaves its loop, and all joins of
\* shutdown return.
C12_ShutdownEndsWorkers ==
    /\ [](stepCounter_ < 0 => (ActiveInsts = {} /\ \A w \in Workers : InDoWorkOnly(w)))
    /\ [][\A w \in Workers :
            (stepCounter_ < 0 /\ ctl'[w] # ctl[w]) =>
                \/ AtPc(w, "doWork", "arrive") /\ ctl'[w] = Goto(ctl[w], "spin")
                \/ AtPc(w, "doWork", "spin") /\ ctl'[w] = Goto(ctl[w], "done")]_vars
    /\ (stepCounter_ < 0) ~> ShutdownReturned

\* shutdown right after startup has returned: the worker ended at its
\* first poll
C12_Witness ==
    /\ prog = "none"
    /\ stepCounter_ < 0
    /\ ShutdownReturned
    /\ Top(ctl[1]).i = 0

\* thread 0 is at the start of nextStepInternal of the user's scheduler,
\* which is active: nextStep was called a second time with no wait between
SecondNextStep ==
    /\ ctl[0] # <<>>
    /\ Top(ctl[0]).k = "nextStepInternal"
    /\ Top(ctl[0]).pc = "start"
    /\ Top(ctl[0]).this = UserSTS
    /\ sts[UserSTS].isActive_

\* C13: a second nextStep on the same non-default scheduler with no wait
\* in between returns normally and leaves the step counter, the active
\* flag, the current instance and every task and subtask unchanged.
C13_SecondNextStepNoOp ==
    [][(SecondNextStep /\ <<ctl[0], aborted>>' # <<ctl[0], aborted>>) =>
           /\ ~aborted'
           /\ ctl'[0] = Pop(ctl[0])
           /\ UNCHANGED <<stepCounter_, instance_, sts>>]_vars

\* a call of parallel_for on the default scheduler is about to return on t
DefaultForReturns(t) == AtPc(t, "parallel_for", "ret") /\ Top(ctl[t]).this = "default"

\* C14: parallel_for on the default scheduler, called while no schedule is
\* active, is one complete step: when it returns every iteration has run
\* exactly once on the subtasks of the even partition (one per thread), the
\* default instance is inactive again, the step counter is the one the loop
\* was published in, one more than at the call, and every worker has
\* finished that step and polls for the next.
C14_DefaultParallelFor ==
    \A t \in DOMAIN ctl : DefaultForReturns(t) =>
        LET fr == Top(ctl[t])
            o == sts["default"]
            task == o.tasks_[fr.task]
        IN /\ DOMAIN task.gExec = 0..(fr.end - 1)
           /\ \A i \in DOMAIN task.gExec : task.gExec[i] = 1
           /\ Len(task.subtasks_) = numThreads
           /\ \A w \in DOMAIN ctl : GetNumSubTasks(o, w) = 1 /\ SubTaskAt(o, w, 0).isDone_
           /\ ~o.isActive_ /\ instance_ = "default"
           /\ stepCounter_ = task.functor_.step
           /\ prog = "ex3" => stepCounter_ = NSteps + 1
           /\ \A w \in Workers : /\ InDoWorkOnly(w)
                                 /\ AtPc(w, "doWork", "spin")
                                 /\ Top(ctl[w]).i = stepCounter_

C14_Witness ==
    /\ DefaultForReturns(0)
    /\ numThreads = 2
    /\ Top(ctl[0]).end = DefaultLoop
    /\ SubTaskAt(sts["default"], 1, 0).isDone_

\* the frames of thread t in which a function passed to run is executing,
\* as indexes of the control stack
FunctionFrames(t) == {j \in DOMAIN ctl[t] : ctl[t][j].k = "function" /\ ctl[t][j].label # SkipLabel}

\* frame j of thread t is a function the caller of run executes itself:
\* the call below it is run of a label without a task, or run of the
\* default scheduler
CalledInline(t, j) ==
    LET below == ctl[t][j - 1]
        op == Script(t, below)[below.pc - 1]
    IN /\ below.k \in {"main", "function"}
       /\ below.pc - 1 \in DOMAIN Script(t, below)
       /\ op.label = ctl[t][j].label
       /\ \/ op.op = "defaultRun"
          \/ op.op = "run" /\ ~IsTaskAssigned(sts[UserSTS], op.label)

\* frame j of thread t is a function called by Task::run for a subtask of
\* thread t whose task has the label of the function
CalledByTask(t, j) ==
    LET below == ctl[t][j - 1]
    IN /\ below.k = "Task::run"
       /\ below.f = BasicTaskFunctor(ctl[t][j].label, stepCounter_)
       /\ below.stid \in SubTaskIds(sts[below.this], t)
       /\ TaskOf(sts[below.this], t, below.stid).label = ctl[t][j].label
       /\ SubTaskAt(sts[below.this], t, below.stid).gCalls = 1

AfterStep(o) ==
    /\ StepFinished(o)
    /\ ~o.isActive_ /\ instance_ = "default"
    /\ \A t \in DOMAIN o.threadSubTasks_ :
          /\ o.threadCallStacks_[t] = <<>>
          /\ \A s \in SubTaskIds(o, t) :
                LET st == SubTaskAt(o, t, s)
                IN st.lr_ = "null" /\ st.checkPoint_ = 0 /\ ~st.doingExtraWork_ /\ st.gRan
    /\ \A i \in DOMAIN o.tasks_ : IsReady(o.tasks_[i]) /\ o.tasks_[i].checkPoint_ = 0
    /\ stepCounterBarrier_ = numThreads - 1
    /\ \A w \in Workers : AtPc(w, "doWork", "spin") /\ Top(ctl[w]).i = stepCounter_

\* every task of o holds the functor of an empty lambda, published in
\* the current step
AllSkipped(o) ==
    \A i \in DOMAIN o.tasks_ :
        o.tasks_[i].functor_.kind # "none" /\ o.tasks_[i].functor_.label = SkipLabel
                                           /\ o.tasks_[i].functor_.step = stepCounter_

\* the step of program skip in which skipRun and skipLoop are called has begun
SkipStepBegun == prog = "skip" /\ stepCounter_ = 2 /\ sts[UserSTS].isActive_

\* C16: in a step whose tasks are published by skipRun and skipLoop every
\* assigned thread passes the begin barrier and marks the end barrier of
\* each of its subtasks, wait() returns, and the scheduler is then in the
\* state a step whose tasks were run leaves it in.
C16_SkipStep ==
    /\ []((prog = "skip" /\ WaitReturns) => AfterStep(sts[UserSTS]))
    /\ []((prog = "skip" /\ WaitReturns /\ stepCounter_ = 2) => AllSkipped(sts[UserSTS]))
    /\ SkipStepBegun ~> (WaitReturns /\ stepCounter_ = 2)

C16_Witness ==
    /\ prog = "skip" /\ WaitReturns /\ stepCounter_ = 2
    /\ AllSkipped(sts[UserSTS])
    /\ \A t \in DOMAIN ctl : \A s \in SubTaskIds(sts[UserSTS], t) :
          SubTaskAt(sts[UserSTS], t, s).gRan

\* the tasks of the user's scheduler that nextStep has restarted and that
\* are not yet published: no thread has passed their begin barrier
RestartedTasks ==
    {i \in DOMAIN sts[UserSTS].tasks_ :
        /\ sts[UserSTS].isActive_
        /\ sts[UserSTS].tasks_[i].functor_ = NoFunctor
        /\ ~IsReady(sts[UserSTS].tasks_[i])}

\* C17 as stated: after nextStep has restarted a Task its end barrier
\* counter is the number of distinct threads assigned to the task, also
\* when a thread holds several subtasks of the task.
C17_EndBarrierCountsThreads ==
    \A i \in RestartedTasks :
        sts[UserSTS].tasks_[i].numThreadsRemaining = GetNumThreads(sts[UserSTS].tasks_[i])

\* C17 amended: after nextStep has restarted a Task its end barrier counter
\* is the number of subtasks of the task, one for every assign call, so a
\* thread that holds several subtasks of the task is counted once for each.
C17_EndBarrierCountsSubtasks ==
    \A i \in RestartedTasks :
        sts[UserSTS].tasks_[i].numThreadsRemaining = Len(sts[UserSTS].tasks_[i].subtasks_)

C17_Witness ==
    /\ prog = "multi"
    /\ \E i \in RestartedTasks :
          LET task == sts[UserSTS].tasks_[i]
          IN /\ task.label = "F_0"
             /\ GetNumThreads(task) = 2
             /\ Len(task.subtasks_) = 3
             /\ task.numThreadsRemaining = 3

\* C18: in a step of the user's scheduler the functor slot of a Task is
\* written at most once: a slot that holds a functor keeps it until the
\* step has ended, whatever calls of run, parallel_for, skipRun and
\* skipLoop are made for the label.
C18_FunctorWrittenOnce ==
    [][\A i \in DOMAIN sts[UserSTS].tasks_ :
          (sts[UserSTS].isActive_ /\ sts[UserSTS].tasks_[i].functor_ # NoFunctor) =>
              sts'[UserSTS].tasks_[i].functor_ = sts[UserSTS].tasks_[i].functor_]_vars

\* thread t is about to continue the paused runner of a coroutine subtask:
\* the pause call of the subtask returns
PauseResumes(t) ==
    /\ AtPc(t, "runSubTask", "run")
    /\ SubTaskAt(sts[Top(ctl[t]).this], t, Top(ctl[t]).stid).lr_ = "paused"

\* subtask s of thread t has been run in the step
HasRun(o, t, s) ==
    SubTaskAt(o, t, s).isDone_ \/ SubTaskAt(o, t, s).gRan \/ SubTaskAt(o, t, s).gCalls >= 1

Segments(t, s) ==
    LET st == SubTaskAt(sts[UserSTS], t, s)
        l == sts[UserSTS].tasks_[st.task_].label
        live == {j \in DOMAIN ctl[t] : ctl[t][j].k = "function" /\ ctl[t][j].label = l}
        kept == {j \in DOMAIN st.saved : st.saved[j].k = "function"}
    IN IF s \notin SubTaskIds(sts[UserSTS], t) THEN 0
       ELSE IF live # {}
       THEN LET j == CHOOSE i \in live : TRUE
            IN IF j < Len(ctl[t]) /\ ctl[t][j + 1].k = "pause"
               THEN ctl[t][j].pc - 1 ELSE ctl[t][j].pc
       ELSE IF kept # {}
       THEN st.saved[CHOOSE i \in kept : TRUE].pc - 1
       ELSE IF st.gCalls = 0 THEN 0
       ELSE Len(Body(prog, l, t)) + 1

\* C20: the segments of the coroutines F and G of ex7.cpp, assigned in
\* that order to thread 0 and each the successor of the other, begin in
\* strict alternation F1, G1, F2, G2, ...: G never has begun more segments
\* than F, and F at most one more than G.
C20_StrictAlternation ==
    prog = "ex7" =>
        /\ Segments(0, 1) <= Segments(0, 0)
        /\ Segments(0, 0) <= Segments(0, 1) + 1

\* the checkpoint of every Task of the user's scheduler, by task id
TaskCheckPoints == [i \in DOMAIN sts[UserSTS].tasks_ |-> sts[UserSTS].tasks_[i].checkPoint_]

\* the step is one inside a step of the user's scheduler
InsideStep == sts[UserSTS].isActive_ /\ sts'[UserSTS].isActive_ /\ stepCounter_' = stepCounter_

\* nextStep of the user's scheduler has just begun a step: every Task and
\* subtask checkpoint is 0
CheckPointsReset ==
    (stepCounter_' # stepCounter_ /\ instance_' = UserSTS) =>
        /\ \A i \in DOMAIN sts'[UserSTS].tasks_ : sts'[UserSTS].tasks_[i].checkPoint_ = 0
        /\ \A t \in DOMAIN sts'[UserSTS].threadSubTasks_ :
              \A s \in 0..(Size(sts'[UserSTS].threadSubTasks_[t]) - 1) :
                  sts'[UserSTS].threadSubTasks_[t][s].checkPoint_ = 0

\* C21: within a step the checkpoint of a Task never decreases,
\* whatever setCheckPoint calls are made, and nextStep resets the checkpoint
\* of every Task and of every subtask to 0.
C21_CheckPointMonotone ==
    [][/\ InsideStep => \A i \in DOMAIN TaskCheckPoints : TaskCheckPoints'[i] >= TaskCheckPoints[i]
       /\ CheckPointsReset]_vars

\* the scheduler object after the calls ops of clearAssignments and assign
RECURSIVE ApplyAssigns(_, _)
ApplyAssigns(o, ops) ==
    IF ops = <<>> THEN o
    ELSE LET op == Head(ops)
         IN ApplyAssigns(IF op.op = "clearAssignments" THEN ClearAssignments(o)
                         ELSE Assign(o, op.label, op.threadId, op.range),
                         Tail(ops))

\* what the assign calls decide: the Task of every label, the subtasks of
\* every Task, the task-local thread ids, and the Task and range of every
\* subtask of every thread in order
AssignView(o) ==
    [labels |-> [i \in DOMAIN o.tasks_ |-> o.tasks_[i].label],
     subtasks |-> [i \in DOMAIN o.tasks_ |-> o.tasks_[i].subtasks_],
     localIds |-> [i \in DOMAIN o.tasks_ |->
                     [t \in DOMAIN o.threadSubTasks_ |-> GetThreadId(o.tasks_[i], t)]],
     threads |-> [t \in DOMAIN o.threadSubTasks_ |->
                    [s \in DOMAIN o.threadSubTasks_[t] |->
                        <<o.threadSubTasks_[t][s].task_, o.threadSubTasks_[t][s].range_>>]]]

\* the main thread of ex1.cpp has made the assign calls of a step
Ex1Assigned ==
    prog = "ex1" /\ OpAt(0, "nextStep") /\ Len(ctl[0]) = 1

\* C22: clearAssignments followed by the same assign calls gives the schedule
\* the calls gave the first time: the same Task for each label, the same
\* subtasks in the same order with the same ranges on every thread, the
\* same task-local thread ids, counted from 0; and the step then runs the
\* same iterations on the same threads, those of the subtask's part of the
\* loop range.
C22_ReplayedAssignment ==
    /\ Ex1Assigned =>
          /\ AssignView(sts[UserSTS]) = AssignView(ApplyAssigns(NewSTS(numThreads, FALSE), AssignEx1))
          /\ \A i \in DOMAIN sts[UserSTS].tasks_ :
                LET task == sts[UserSTS].tasks_[i]
                IN {GetThreadId(task, t) : t \in DOMAIN ctl} \ {-1} = 0..(GetNumThreads(task) - 1)
    /\ (prog = "ex1" /\ WaitReturns) =>
          \A t \in DOMAIN ctl : \A s \in SubTaskIds(sts[UserSTS], t) :
              LET st == SubTaskAt(sts[UserSTS], t, s)
                  f == sts[UserSTS].tasks_[st.task_].functor_
              IN f.kind = "loop" =>
                    /\ st.runInfo_.startIter = Subset(f.range, st.range_).start
                    /\ st.runInfo_.endIter = Subset(f.range, st.range_).end
                    /\ st.runInfo_.currentIter = st.runInfo_.endIter
                    /\ st.gRan

C22_Witness ==
    /\ Ex1Assigned
    /\ stepCounter_ = 1
    /\ AssignView(sts[UserSTS]) = AssignView(ApplyAssigns(NewSTS(numThreads, FALSE), AssignEx1))
    /\ sts[UserSTS].tasks_[GetTaskId(sts[UserSTS], "F")].functor_ = BasicTaskFunctor("F", 1)
    /\ GetNumSubTasks(sts[UserSTS], 0) = 3

\* the calls that change the assignment
AssignmentOps == {"assign", "clearAssignments", "setCoroutine", "enableTaskAutoBalancing"}

\* C23: while the user's scheduler is active, between nextStep and wait,
\* no call changes its task list, the subtasks of its Tasks or the subtask
\* lists of its threads, and a call of an assignment operation made then
\* does not return: it is rejected.
C23_AssignRejectedWhileActive ==
    [][sts[UserSTS].isActive_ =>
          /\ AssignView(sts'[UserSTS]) = AssignView(sts[UserSTS])
          /\ \A t \in DOMAIN ctl :
                (\E op \in AssignmentOps : OpAt(t, op)) => ctl'[t] = ctl[t]]_vars

\* the programs in which one thread holds several parts of the loop F_0
MultiPartProgs == {"multi", "multi2"}

\* C24: in a step whose loop F_0 has several parts on one thread, the
\* helper (program multi) or the caller of parallel_for (program multi2),
\* wait() returns with every part of the loop executed.
C24_MultiPartLoopCompletes ==
    (prog \in MultiPartProgs /\ sts[UserSTS].isActive_) ~>
        (WaitReturns /\ \A t \in DOMAIN ctl : \A s \in SubTaskIds(sts[UserSTS], t) :
                            SubTaskAt(sts[UserSTS], t, s).gRan)

\* thread t is at a call of parallel_for with a label that is not assigned
\* on the active scheduler of the user
UnassignedFor(t) ==
    /\ OpAt(t, "parallel_for")
    /\ instance_ = UserSTS /\ sts[UserSTS].isActive_
    /\ ~IsTaskAssigned(sts[UserSTS], CurOp(t).label)

\* thread t is at a call of waitForTask on a default-schedule instance or
\* with a label that is not assigned
UnassignedWait(t) ==
    /\ OpAt(t, "waitForTask")
    /\ \/ sts[CurOp(t).this].bUseDefaultSchedule_
       \/ ~IsTaskAssigned(sts[CurOp(t).this], CurOp(t).label)

\* the scheduler state outside the control stacks
SchedulerState == <<sts, stepCounter_, stepCounterBarrier_, instance_, red>>

\* C25: parallel_for on a label that is not assigned, on the active
\* scheduler of the user, calls body(0), ..., body(end-1) in this order on
\* the calling thread and returns; waitForTask on such a label or on a
\* default-schedule instance returns at its first step; none of these calls
\* is ever blocked and none changes a task, a barrier or a counter.
C25_UnassignedLabel ==
    /\ [][\A t \in DOMAIN ctl :
            (ctl'[t] # ctl[t] /\ (UnassignedFor(t) \/ UnassignedWait(t) \/ At(t, "inline"))) =>
                /\ SchedulerState' = SchedulerState /\ ~aborted'
                /\ UnassignedFor(t) =>
                      /\ ~CurOp(t).red
                      /\ ctl'[t] = Append(Adv(ctl[t]), FrInline(CurOp(t).end))
                /\ UnassignedWait(t) => ctl'[t] = Adv(ctl[t])
                /\ At(t, "inline") =>
                      LET fr == Top(ctl[t])
                      IN \/ /\ Len(fr.gBody) < fr.end
                            /\ Len(ctl'[t]) = Len(ctl[t])
                            /\ Top(ctl'[t]).gBody = Append(fr.gBody, Len(fr.gBody))
                         \/ /\ fr.gBody = [j \in 1..fr.end |-> j - 1]
                            /\ ctl'[t] = Pop(ctl[t])]_vars
    /\ [](\A t \in ThreadIds :
            (Running(t) /\ (UnassignedFor(t) \/ UnassignedWait(t) \/ At(t, "inline")))
                => ENABLED Step(t))

\* the loop on the label X of program unas has called body(0), body(1) and
\* body(2) on thread 0, and the scheduler is as nextStep left it
C25_Witness ==
    /\ prog = "unas" /\ At(0, "inline")
    /\ Top(ctl[0]).gBody = << 0, 1, 2 >>
    /\ sts[UserSTS].isActive_
    /\ sts[UserSTS].tasks_[0].functor_.kind = "none"

\* the subtask of the task COMM of program ex6: the second one of thread 1
CommSubTask == SubTaskAt(sts[UserSTS], 1, 1)

\* thread t runs the function of COMM
RunsComm(t) ==
    \E j \in DOMAIN ctl[t] : ctl[t][j].k = "function" /\ ctl[t][j].label = "COMM"

\* thread t is at its call of yield
AtYield(t) == OpAt(t, "yield")

\* C26: in the step of program ex6, in which every thread calls yield and
\* the high-priority task COMM is assigned to thread 1, COMM is executed
\* exactly once, on thread 1; a yield of thread 1 made while COMM is ready
\* and not done runs COMM before it returns, and the yield calls of the
\* other threads return without running COMM.
C26_YieldRunsCommOnce ==
    /\ [](prog = "ex6" =>
            /\ \A t \in DOMAIN ctl : RunsComm(t) => t = 1
            /\ stepCounter_ = 1 => CommSubTask.gCalls <= 1
            /\ WaitReturns =>
                  /\ CommSubTask.gCalls = 1
                  /\ CommSubTask.isDone_)
    /\ [][\A t \in DOMAIN ctl :
            (prog = "ex6" /\ AtYield(t) /\ ctl'[t] # ctl[t]) =>
                IF /\ t = 1
                   /\ IsReady(sts[UserSTS].tasks_[CommSubTask.task_])
                   /\ ~CommSubTask.isDone_
                THEN ctl'[t] = Append(Adv(ctl[t]), FrRST(UserSTS, 1))
                ELSE ctl'[t] = Adv(ctl[t]) /\ sts' = sts]_vars

\* COMM runs on thread 1 inside the yield call of F, and F has not
\* returned
C26_Witness ==
    /\ prog = "ex6" /\ At(1, "function")
    /\ Top(ctl[1]).label = "COMM"
    /\ \E j \in DOMAIN ctl[1] :
          ctl[1][j].k = "function" /\ ctl[1][j].label = "F"
    /\ ~SubTaskAt(sts[UserSTS], 1, 0).isDone_
    /\ CommSubTask.gCalls = 1

\* the outside caller is past a returned wait() and has not yet set
\* isRunning_ in its next cont()
CallerOutside == lrCaller.pc \in {"outside", "run", "dtor", "cLock", "cSet"}

\* the runner's thread is inside pause(), at cv_.wait or at the test that
\* sends it back there
RunnerParked ==
    \/ lrRunner.pc = "pWait"
    \/ lrRunner.pc = "pTest" /\ ~isRunning_

\* C27: the outside caller's wait() returns only once the callable has
\* called pause() or has returned (or, before the first run, once the new
\* thread has paused); from then until the caller's next cont() the
\* runner's thread stays inside pause() and the callable does not advance;
\* after a returned wait(), isFinished() is true exactly when the callable
\* has returned; and each cont() issued then resumes the paused callable,
\* or starts the new one, eventually.
C27_StrictHandOff ==
    /\ [](CallerOutside =>
            /\ RunnerParked
            /\ lrLam \in {"none", "paused", "returned"} \/ (lrLam = "new" /\ lrCaller.pc # "outside")
            /\ lrLam = "paused" => lrRunner.ret = "lam"
            /\ lrLam \in {"none", "returned", "new"} => lrRunner.ret = "check")
    /\ [][(CallerOutside /\ CallerOutside') =>
            /\ lrRunner'.left = lrRunner.left
            /\ lrLam' = lrLam \/ (lrCaller.pc = "run" /\ lrLam' = "new")]_vars
    /\ []((lrCaller.pc = "outside" /\ lrCaller.runs > 0) =>
            /\ finished_ <=> lrLam = "returned"
            /\ ~finished_ <=> lrLam = "paused")
    /\ (lrCaller.pc = "cSet" /\ lrLam = "paused") ~> (lrLam = "running")
    /\ (lrCaller.pc = "cSet" /\ lrLam = "new") ~> (lrLam = "running")
    /\ []~lrAborted

\* the caller is about to continue a callable that it has continued once
\* already: wait() has returned after the second pause()
C27_Witness ==
    /\ lrCaller.pc = "cSet" /\ lrCaller.runs = MaxRuns
    /\ lrLam = "paused" /\ ~finished_
    /\ lambda_ = 2 /\ lrRunner.left = 0
    /\ lrRunner.pc = "pWait" /\ cv_.spurious = 1

\* the steps worker w has processed its queue for
StepsOf(w) == ctl[w][1].gSteps

\* every Task of scheduler object o is as Task::restart leaves it and every
\* subtask as SubTask::reset leaves it
AllRestarted(o) ==
    /\ \A i \in DOMAIN o.tasks_ :
          /\ o.tasks_[i].functor_ = NoFunctor
          /\ ~IsReady(o.tasks_[i])
          /\ o.tasks_[i].numThreadsRemaining = Len(o.tasks_[i].subtasks_)
          /\ o.tasks_[i].checkPoint_ = 0
    /\ \A t \in DOMAIN o.threadSubTasks_ : \A s \in SubTaskIds(o, t) :
          ~SubTaskAt(o, t, s).isDone_ /\ SubTaskAt(o, t, s).checkPoint_ = 0

\* C28: every worker processes its queue once for each published step, in
\* order: the steps it has processed are 1, 2, ... up to the step counter
\* or one less, and all of them up to the counter when wait returns; the
\* counter moves to s only from s - 1 and only when the instance of the
\* step is set, active and entirely restarted; and a worker begins step s
\* only when the counter is s.
C28_OneDrainPerStep ==
    /\ [](\A w \in Workers :
            /\ StepsOf(w) = [j \in 1..Len(StepsOf(w)) |-> j]
            /\ stepCounter_ >= 0 => Len(StepsOf(w)) \in {stepCounter_ - 1, stepCounter_}
            /\ AtPc(0, "waitInternal", "ret") =>
                  /\ Len(StepsOf(w)) = stepCounter_
                  /\ InDoWorkOnly(w))
    /\ [][stepCounter_' > stepCounter_ =>
            /\ stepCounter_' = stepCounter_ + 1
            /\ instance_' = instance_
            /\ sts[instance_].isActive_
            /\ AllRestarted(sts[instance_])
            /\ \A w \in Workers : InDoWorkOnly(w) /\ Len(StepsOf(w)) = stepCounter_]_vars
    /\ [][\A w \in Workers :
            Len(StepsOf(w)') > Len(StepsOf(w)) =>
                /\ stepCounter_ = Len(StepsOf(w)) + 1
                /\ StepsOf(w)' = Append(StepsOf(w), stepCounter_)
                /\ sts[instance_].isActive_
                /\ ~AtPc(0, "nextStepInternal", "publish")]_vars

\* both workers of program ex1 have processed the two steps and the
\* second wait has returned
C28_Witness ==
    /\ prog = "ex1" /\ WaitReturns /\ stepCounter_ = 2
    /\ \A w \in Workers : StepsOf(w) = << 1, 2 >>
    /\ Cardinality(Workers) = 2

\* the run information of the subtasks of Task id of the user's scheduler,
\* in the order of Task::subtasks_
RunInfosOf(o, id) ==
    [k \in DOMAIN o.tasks_[id].subtasks_ |->
        SubTaskAt(o, o.tasks_[id].subtasks_[k][1], o.tasks_[id].subtasks_[k][2]).runInfo_]

\* the Tasks of the user's scheduler with auto-balancing enabled
BalancedTasks == {i \in DOMAIN sts[UserSTS].tasks_ : sts[UserSTS].tasks_[i].autoBalancing_}

\* C29: with auto-balancing enabled on a loop task no iteration is ever
\* executed twice, and when wait returns every iteration of the loop has
\* been executed once; a stealWork call that succeeds takes a running
\* subtask with at least 2 iterations after its current one, sets its end
\* to half = current + (end - current) / 2, which is after the current
\* iteration, and gives the thief [half, old end); a call that fails
\* changes no range; no other step lowers the end of a running subtask.
C29_StealExactlyOnce ==
    /\ [](\A id \in BalancedTasks :
            LET task == sts[UserSTS].tasks_[id]
            IN /\ \A i \in DOMAIN task.gExec : task.gExec[i] <= 1
               /\ (WaitReturns /\ task.functor_.kind = "loop") =>
                     /\ DOMAIN task.gExec = task.functor_.range.start..(task.functor_.range.end - 1)
                     /\ \A i \in DOMAIN task.gExec : task.gExec[i] = 1)
    /\ [][\A id \in BalancedTasks \cap DOMAIN sts'[UserSTS].tasks_ :
            LET old == RunInfosOf(sts[UserSTS], id)
                new == RunInfosOf(sts'[UserSTS], id)
                thieves == {t \in DOMAIN ctl :
                               /\ AtPc(t, "runSubTask", "steal") /\ ctl'[t] # ctl[t]
                               /\ Top(ctl[t]).this = UserSTS
                               /\ SubTaskAt(sts[UserSTS], t, Top(ctl[t]).stid).task_ = id}
                lowered == {k \in DOMAIN old : k \in DOMAIN new /\ old[k].isRunning
                                                /\ new[k].endIter < old[k].endIter}
            IN /\ DOMAIN new = DOMAIN old
               /\ lowered # {} => thieves # {}
               /\ \A t \in thieves :
                     LET st == SubTaskAt(sts'[UserSTS], t, Top(ctl[t]).stid)
                     IN IF st.doingExtraWork_
                        THEN \E v \in DOMAIN old :
                                /\ lowered = {v}
                                /\ old[v].endIter - old[v].currentIter - 1 >= 2
                                /\ new[v].endIter = old[v].currentIter
                                                    + ((old[v].endIter - old[v].currentIter) \div 2)
                                /\ new[v].endIter > old[v].currentIter
                                /\ new[v] = [old[v] EXCEPT !.endIter = new[v].endIter]
                                /\ st.workingRange_ = Range(new[v].endIter, old[v].endIter)
                                /\ \A k \in DOMAIN old \ {v} : new[k] = old[k]
                        ELSE /\ new = old
                             /\ \A k \in DOMAIN old :
                                   old[k].isRunning => old[k].endIter - old[k].currentIter - 1 < 2]_vars

\* thread 0 of program ex3 has stolen [3, 5) from thread 1, which keeps
\* [1, 3) and is running iteration 1
C29_Witness ==
    /\ prog = "ex3" /\ sts[UserSTS].isActive_
    /\ \E id \in BalancedTasks :
          /\ RunInfosOf(sts[UserSTS], id)[2] =
                [isRunning |-> TRUE, startIter |-> 1, endIter |-> 3, currentIter |-> 1]
          /\ SubTaskAt(sts[UserSTS], 0, 1).doingExtraWork_
          /\ SubTaskAt(sts[UserSTS], 0, 1).workingRange_ = Range(3, 5)
          /\ sts[UserSTS].tasks_[id].gExec[0] = 1
          /\ sts[UserSTS].tasks_[id].gExec[3] = 0

\* C30: when runSubTask(stid) returns on a thread, the done flag of subtask
\* stid of that thread is true, whatever the kind of the subtask, a
\* coroutine that paused with a checkpoint its Task has not reached
\* included.
C30_RunSubTaskFinishes ==
    [][\A t \in DOMAIN ctl :
          (At(t, "runSubTask") /\ ctl'[t] = Pop(ctl[t])) =>
              SubTaskAt(sts'[Top(ctl[t]).this], t, Top(ctl[t]).stid).isDone_]_vars

-----------------------------------------------------------------------------
\* ---- C31: what pause(cp) returns ----
\* the checkpoints of the subtasks and Tasks of a scheduler object
CheckPoints(o) ==
    <<[t \in DOMAIN o.threadSubTasks_ |->
          [s \in DOMAIN o.threadSubTasks_[t] |-> o.threadSubTasks_[t][s].checkPoint_]],
      [i \in DOMAIN o.tasks_ |-> o.tasks_[i].checkPoint_]>>

\* the candidates of subtask st of thread t that can be run now
RunnableCandidates(o, t, st) ==
    {i \in o.nextSubTasks_[t][st] :
        /\ i < GetNumSubTasks(o, t)
        /\ ~SubTaskAt(o, t, i).isDone_
        /\ IsReady(TaskOf(o, t, i))
        /\ SubTaskAt(o, t, i).checkPoint_ <= TaskOf(o, t, i).checkPoint_}

\* thread t completes a call pause(cp) in this step, from the test of the
\* progress counter (fast) or from the tests after it (slow)
PauseFast(t) == OpAt(t, "pause") /\ ctl'[t] # ctl[t] /\ ~At(t, "pause")'
PauseSlow(t) == At(t, "pause") /\ ctl'[t] # ctl[t] /\ ~aborted'

\* the subtask that calls pause on thread t, and whether this step
\* suspended it
Pausing(t) == GetCurrentSubTaskId(sts[UserSTS], t)
Suspended(t) ==
    /\ SubTaskAt(sts[UserSTS], t, Pausing(t)).lr_ = "running"
    /\ SubTaskAt(sts'[UserSTS], t, Pausing(t)).lr_ = "paused"
    /\ AtPc(t, "runSubTask", "post")' /\ Top(ctl'[t]).stid = Pausing(t)

\* the function that called pause, after the step: kept by the runner
\* when the subtask was suspended, else on the stack of the thread
PauseCaller(t) ==
    IF Suspended(t) THEN Top(SubTaskAt(sts'[UserSTS], t, Pausing(t)).saved)
    ELSE Top(ctl'[t])

\* thread t resumes subtask s in this step
Resumed(t, s) ==
    /\ s < GetNumSubTasks(sts[UserSTS], t)
    /\ SubTaskAt(sts[UserSTS], t, s).lr_ = "paused"
    /\ SubTaskAt(sts'[UserSTS], t, s).lr_ = "running"

\* C31: pause(cp) returns true exactly when it suspended the calling
\* subtask.  With cp = 0 and the thread's progress counter 0 it returns
\* false and changes nothing (the counter stays 0); for a subtask that is
\* not a coroutine on the thread, and for a coroutine with no runnable
\* pause target whose Task has reached cp, it returns false without
\* suspending and without changing a checkpoint; in every other case the
\* subtask's checkpoint becomes cp, the subtask is suspended, and the call
\* returns true when the subtask is resumed.
C31_PauseReturn ==
    [][\A t \in DOMAIN ctl :
          /\ OpAt(t, "pause") /\ ctl'[t] # ctl[t] =>
                (CurOp(t).cp = 0 /\ sts[UserSTS].systemProgressed_[t] = 0) = PauseFast(t)
          /\ PauseFast(t) =>
                /\ ctl'[t] = SetTop(ctl[t], [Top(ctl[t]) EXCEPT !.pc = @ + 1, !.gRet = "false"])
                /\ sts' = sts
          /\ PauseSlow(t) =>
                LET o == sts[UserSTS]
                    st == Pausing(t)
                    cp == Top(ctl[t]).cp
                    refuses == \/ ~IsCoroutine(TaskOf(o, t, st), t)
                               \/ /\ RunnableCandidates(o, t, st) = {}
                                  /\ TaskOf(o, t, st).checkPoint_ >= cp
                IN /\ Suspended(t) = ~refuses
                   /\ PauseCaller(t).k = "function"
                   /\ PauseCaller(t).gRet = (IF Suspended(t) THEN "true" ELSE "false")
                   /\ PauseCaller(t) = [ctl[t][Len(ctl[t]) - 1] EXCEPT !.gRet = PauseCaller(t).gRet]
                   /\ Suspended(t) =>
                         SubTaskAt(sts'[UserSTS], t, st).checkPoint_ = cp
                   /\ ~Suspended(t) =>
                         /\ ctl'[t] = SetTop(Pop(ctl[t]), PauseCaller(t))
                         /\ CheckPoints(sts'[UserSTS]) = CheckPoints(o)
                         /\ SubTaskAt(sts'[UserSTS], t, st).lr_ = SubTaskAt(o, t, st).lr_
          /\ \A s \in 0..(MaxSubTasks - 1) :
                Resumed(t, s) => /\ Top(ctl'[t]) = Top(SubTaskAt(sts[UserSTS], t, s).saved)
                                 /\ Top(ctl'[t]).gRet = "true"]_vars

\* C31 witness: in ex7 the pause of F has suspended F, which waits to
\* return true, and the pause of G, run as its pause target, has returned
\* false
C31_Witness ==
    /\ prog = "ex7" /\ Running(0)
    /\ GetNumSubTasks(sts[UserSTS], 0) = 2
    /\ SubTaskAt(sts[UserSTS], 0, 0).lr_ = "paused"
    /\ Top(SubTaskAt(sts[UserSTS], 0, 0).saved).gRet = "true"
    /\ Top(ctl[0]).k = "function" /\ Top(ctl[0]).label = "G" /\ Top(ctl[0]).gRet = "false"

-----------------------------------------------------------------------------
\* ---- C39: the pause-target sets of a step ----
\* the set findPauseTarget reads for subtask s of thread t holds only later
\* subtasks of the thread's list whose label is a successor of the task of
\* s, and is empty for a subtask that is not a coroutine on the thread
TargetSetFits(o, t, s) ==
    /\ \A i \in o.nextSubTasks_[t][s] :
          /\ i > s /\ i < GetNumSubTasks(o, t)
          /\ TaskOf(o, t, i).label \in TaskOf(o, t, s).nextTasks_
    /\ ~IsCoroutine(TaskOf(o, t, s), t) => o.nextSubTasks_[t][s] = {}

\* C39: in every step, from its start on, the pause-target set of every
\* subtask on every thread's list holds only later subtasks of that list
\* whose label is a successor of the subtask's task, and the set of a
\* subtask that is not a coroutine is empty, also in a step that follows
\* clearAssignments and a different assignment.
C39_TargetSetsFresh ==
    \A inst \in Insts :
        sts[inst].isActive_ =>
            \A t \in DOMAIN ctl : \A s \in 0..(GetNumSubTasks(sts[inst], t) - 1) :
                TargetSetFits(sts[inst], t, s)

-----------------------------------------------------------------------------
\* ---- C32: what findPauseTarget selects ----
\* the candidates of subtask st of thread t: the later subtasks of the
\* thread whose label is a successor of the task of st, none for a subtask
\* that is not a coroutine on the thread
Candidates(o, t, st) ==
    IF IsCoroutine(TaskOf(o, t, st), t)
    THEN {i \in (st + 1)..(GetNumSubTasks(o, t) - 1) :
             TaskOf(o, t, i).label \in TaskOf(o, t, st).nextTasks_}
    ELSE {}

\* what findPauseTarget(st) returns according to the candidates
Selected(o, t, st) ==
    LET open == {i \in Candidates(o, t, st) :
                    /\ ~SubTaskAt(o, t, i).isDone_
                    /\ SubTaskAt(o, t, i).checkPoint_ <= TaskOf(o, t, i).checkPoint_
                    /\ IsReady(TaskOf(o, t, i))}
    IN [pauseTarget |-> IF open = {} THEN -1
                        ELSE CHOOSE i \in open : \A j \in open : i <= j,
        ret |-> \E i \in Candidates(o, t, st) : ~SubTaskAt(o, t, i).isDone_]

\* thread t is about to call findPauseTarget: in runSubTask after a pause,
\* in runSubTask after the subtask is done, or in pause of a coroutine
FindsPauseTarget(t) ==
    \/ AtPc(t, "runSubTask", "post") /\ Top(ctl[t]).targetsRemain
    \/ AtPc(t, "runSubTask", "targets")
    \/ /\ At(t, "pause") /\ Pausing(t) # -1
       /\ IsCoroutine(TaskOf(sts[UserSTS], t, Pausing(t)), t)

\* the scheduler object and the subtask of that call
FindsIn(t) == IF At(t, "pause") THEN UserSTS ELSE Top(ctl[t]).this
FindsFor(t) == IF At(t, "pause") THEN Pausing(t) ELSE Top(ctl[t]).stid

\* C32: every call findPauseTarget(st) yields the lowest-indexed candidate
\* of st (a later subtask of the same thread whose label is a successor of
\* the task of st) that is not done, has reached its checkpoint and whose
\* Task's begin barrier is open, or -1 when there is none, and returns true
\* exactly when some candidate is not done.
C32_FindPauseTarget ==
    \A t \in DOMAIN ctl :
        FindsPauseTarget(t) =>
            FindPauseTarget(sts[FindsIn(t)], t, FindsFor(t))
                = Selected(sts[FindsIn(t)], t, FindsFor(t))

-----------------------------------------------------------------------------
\* ---- C33: wait on a scheduler that is not active ----
\* C33: a call of wait() on a scheduler that is not active returns at once
\* and changes neither the step-completion barrier nor the active flag
\* nor the current instance.
C33_WaitIgnoredWhenInactive ==
    [][\A t \in DOMAIN ctl :
          (OpAt(t, "wait") /\ ~sts[UserSTS].isActive_) =>
              /\ ctl'[t] = Adv(ctl[t])
              /\ ~aborted'
              /\ stepCounterBarrier_' = stepCounterBarrier_
              /\ sts'[UserSTS].isActive_ = sts[UserSTS].isActive_
              /\ instance_' = instance_]_vars

-----------------------------------------------------------------------------
\* ---- C34: the order of wait() ----
\* the main thread is inside waitInternal of an active schedule, at one of
\* the given places
MainWaitsAt(pcs) == At(0, "waitInternal") /\ Top(ctl[0]).pc \in pcs

\* C34: wait() first drains the queue of the main thread, then waits until
\* the end barrier of every Task of the scheduler, the first-created one
\* included, is zero, only then waits on the step-completion barrier, and
\* only after that clears the active flag and makes the default instance
\* current.
C34_WaitOrder ==
    LET o == sts[Top(ctl[0]).this]
    IN /\ MainWaitsAt({"tasks", "barrier", "close"}) =>
             /\ o.isActive_ /\ instance_ = Top(ctl[0]).this
             /\ o.threadCallStacks_[0] = <<>>
       /\ MainWaitsAt({"barrier", "close"}) =>
             \A i \in DOMAIN o.tasks_ : EndBarrierPassed(o.tasks_[i])
       /\ MainWaitsAt({"close"}) => stepCounterBarrier_ = 0
       /\ MainWaitsAt({"ret"}) => ~o.isActive_ /\ instance_ = "default"

-----------------------------------------------------------------------------
\* ---- C35: which subtasks hold a lambda runner ----
\* subtask s of thread t holds no runner, or holds one whose callable is
\* being run by t inside runSubTask(s), or holds one whose callable is
\* paused and kept by the runner
RunnerHeldAsStated(o, t, s) ==
    LET st == SubTaskAt(o, t, s)
    IN /\ st.lr_ = "null" => st.saved = <<>>
       /\ st.lr_ = "running" =>
             /\ st.saved = <<>>
             /\ \E j \in DOMAIN ctl[t] : ctl[t][j] = FrLR(s)
             /\ \E j \in DOMAIN o.threadCallStacks_[t] : o.threadCallStacks_[t][j] = s
       /\ st.lr_ = "paused" =>
             /\ st.saved # <<>> /\ st.saved[1] = FrLR(s)
             /\ IsCoroutine(TaskOf(o, t, s), t)

\* C35: a coroutine subtask holds a lambda runner from its first run of a
\* step, across its pauses, until its callable returns, when the runner
\* goes back to the pool; once a step is over no subtask holds a runner.
C35_RunnerHeldDuringStepOnly ==
    \A t \in DOMAIN ctl : \A s \in SubTaskIds(sts[UserSTS], t) :
        /\ RunnerHeldAsStated(sts[UserSTS], t, s)
        /\ ~sts[UserSTS].isActive_ => SubTaskAt(sts[UserSTS], t, s).lr_ = "null"

-----------------------------------------------------------------------------
\* ---- C36: the roll call ----
\* the roll call is running (the variables are not those of an idle one)
RollCall == rcOut # <<>> \/ rcPc[0] = "print"

\* worker w has marked its arrival for round r
Marked(w, r) == tidCalled[w] > r

\* thread 0 has opened round r, after closing the OM barrier of the round
\* before
Opened(r) ==
    /\ locksOpened_ >= r
    /\ tidCalled[0] > r \/ (tidCalled[0] = r /\ rcPc[0] \in {"ombWait", "close"})

RCDone == \A t \in RCThreads : rcPc[t] = "done"

\* C36: in every round of the roll call thread 0 passes omb.wait only after
\* every worker has marked its arrival for the round; no worker is past
\* rmob.wait of a round that thread 0 has not opened, having closed the OM
\* barrier before; the counter of the OM barrier is never negative; and all
\* rounds complete.
C36_RollCall ==
    /\ [](RollCall =>
            /\ (rcPc[0] = "close" \/ tidCalled[0] > 1) =>
                  \A w \in RCWorkers :
                      Marked(w, IF rcPc[0] = "close" THEN tidCalled[0] ELSE tidCalled[0] - 1)
            /\ \A w \in RCWorkers :
                  /\ rcPc[w] \in {"here", "mark"} => Opened(tidCalled[w])
                  /\ Marked(w, 1) => Opened(tidCalled[w] - 1)
                  /\ tidCalled[w] \in {tidCalled[0], tidCalled[0] + 1}
            /\ omb >= 0
            /\ omb = Cardinality({w \in RCWorkers : ~Marked(w, tidCalled[0])}))
    /\ RollCall ~> RCDone

\* C36 witness: the roll call is over, every round was opened and every
\* thread answered in its round
C36_Witness ==
    /\ RollCall /\ RCDone
    /\ locksOpened_ = rollCallThreads - 1
    /\ \A w \in RCWorkers : lockNum_[w] = rollCallThreads - 1
    /\ Len(rcOut) = 2 * (rollCallThreads - 1)

-----------------------------------------------------------------------------
\* ---- C37: the step-completion barrier ----
\* the number of times worker w has marked its arrival at the barrier
Arrivals(w) == ctl[w][1].i + (IF ctl[w][1].pc = "arrive" THEN 0 ELSE 1)

\* the number of times waitInternal has closed the barrier
Closes ==
    IF (\E i \in Insts : sts[i].isActive_) /\ ~AtPc(0, "nextStepInternal", "publish")
    THEN stepCounter_ - 1 ELSE stepCounter_

\* worker w has processed its queue for the current step and has marked
\* its arrival after it
DrainedStep(w) ==
    /\ InDoWorkOnly(w) /\ ctl[w][1].pc = "spin"
    /\ ctl[w][1].i = stepCounter_
    /\ StepsOf(w) # <<>> /\ StepsOf(w)[Len(StepsOf(w))] = stepCounter_

\* C37: the counter of the step-completion barrier is never negative; it
\* is the number of arrivals still due (two of each worker before the
\* first wait has closed it, one of each worker after every close); and
\* during a step it is zero only when every worker has processed its queue
\* for the step.
C37_StepBarrier ==
    /\ stepCounterBarrier_ >= 0
    /\ stepCounter_ >= 0 =>
          /\ stepCounterBarrier_ =
                SumSeq([w \in 1..(numThreads - 1) |-> Closes + 2 - Arrivals(w)])
          /\ \A w \in Workers : Arrivals(w) <= Closes + 2
    /\ (stepCounter_ >= 1 /\ stepCounterBarrier_ = 0 /\ \E i \in Insts : sts[i].isActive_) =>
          \A w \in Workers : DrainedStep(w)

\* C37 witness: the barrier has reached zero in the second step of ex1,
\* after zero in the first step and the close to N-1
C37_Witness ==
    /\ prog = "ex1" /\ stepCounter_ = 2 /\ stepCounterBarrier_ = 0
    /\ AtPc(0, "waitInternal", "close")
    /\ \A w \in Workers : DrainedStep(w) /\ StepsOf(w) = << 1, 2 >>

-----------------------------------------------------------------------------
\* ---- C38: the call stacks of running subtasks ----
\* the subtasks of scheduler object inst whose runSubTask thread t is
\* inside, outermost first
RECURSIVE RunningSubTasks(_, _)
RunningSubTasks(inst, s) ==
    IF s = <<>> THEN <<>>
    ELSE IF Head(s).k = "runSubTask" /\ Head(s).this = inst
         THEN << Head(s).stid >> \o RunningSubTasks(inst, Tail(s))
         ELSE RunningSubTasks(inst, Tail(s))

\* C38: the call stack of a thread holds the subtasks whose runSubTask the
\* thread is inside (every push is matched by a pop), in strictly
\* increasing order from bottom to top; it is empty whenever the thread is
\* in runAllSubTasks itself; and runSubTask is entered only for a subtask
\* that is not done.
C38_CallStacks ==
    /\ [](\A inst \in Insts : \A t \in DOMAIN ctl :
            LET cstack == sts[inst].threadCallStacks_[t]
            IN /\ cstack = RunningSubTasks(inst, ctl[t])
               /\ \A i, j \in DOMAIN cstack : i < j => cstack[i] < cstack[j]
               /\ (At(t, "runAllSubTasks") /\ Top(ctl[t]).this = inst) => cstack = <<>>)
    /\ [][\A inst \in Insts : \A t \in DOMAIN ctl :
            LET cstack == sts[inst].threadCallStacks_[t]
                after == sts'[inst].threadCallStacks_[t]
            IN Len(after) > Len(cstack) =>
                  /\ after = Append(cstack, after[Len(after)])
                  /\ after[Len(after)] \in SubTaskIds(sts[inst], t)
                  /\ ~SubTaskAt(sts[inst], t, after[Len(after)]).isDone_
                  /\ ~aborted']_vars

\* C38 witness: in ex7 thread 0 is inside runSubTask of G, called from
\* runSubTask of the paused F
C38_Witness ==
    /\ prog = "ex7" /\ Running(0)
    /\ sts[UserSTS].threadCallStacks_[0] = << 0, 1 >>
    /\ Top(ctl[0]).k = "function" /\ Top(ctl[0]).label = "G"

-----------------------------------------------------------------------------
\* ---- C40: every step completes ----
\* the programs whose steps publish or skip every assigned task, call
\* nextStep and wait once for each step and assign between steps only
PublishingProgs ==
    {"ex1", "ex3", "ex7", "ex6", "seq", "skip", "multi", "multi2", "unas", "reassign",
     "ckpt", "succ", "cpdown"}

\* C40: under fair scheduling of all threads, a step of the user's
\* scheduler in which every assigned task is published or skipped
\* completes: every subtask is run to its end and wait() returns.
C40_StepCompletes ==
    (prog \in PublishingProgs /\ sts[UserSTS].isActive_) ~>
        (WaitReturns /\ StepFinished(sts[UserSTS]))

====
